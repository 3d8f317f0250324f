---------------------------- MODULE Articles_proofs ----------------------------
(***************************************************************************)
(* Proofs about the versions of one 立言任务, their 主题 and 立言 runs and the       *)
(* Revisions of their articles, for any texts, edit sessions, requests and keys *)
(* and any number of versions and runs.                                      *)
(***************************************************************************)
EXTENDS Articles, SequenceTheorems, FiniteSetTheorems, TLAPS

\* What a version refers to is there, and is what it was when it was saved: its
\* 来源 have a text, and its 主题 snapshot was made beside those texts.
Stored ==
    /\ \A v \in DOMAIN versions : \A i \in DOMAIN versions[v].sources :
          /\ versions[v].sources[i][1] <= Len(versions)
          /\ sources[versions[v].sources[i]].content # None
    /\ \A n \in 1 .. MaxVersions : n > Len(versions) => themes[n] = NoTheme
    /\ \A v \in DOMAIN versions : versions[v].theme # 0 =>
          /\ themes[versions[v].theme].content # None
          /\ themes[versions[v].theme].context = ContextOf(v)
    /\ \A t \in 1 .. MaxVersions :
          /\ themes[t].report \in {NoReport, themes[t].context}
          /\ themes[t].content = None => themes[t] = NoTheme

\* The run at place r: its numbers are no greater than its place; a 主题 run has
\* read what its snapshot was made beside, or nothing yet; an article is only
\* written of a complete version, and, unless its run was ended while its handler
\* claimed it, only of the current one.
RunOK(r, x) ==
    /\ x.input <= r /\ x.attempt <= r
    /\ x.kind = "theme" => /\ themes[x.target].content # None
                           /\ x.read \in {NoReport, themes[x.target].context}
    /\ x.kind = "article" =>
          /\ x.target \in DOMAIN versions /\ Complete(x.target)
          /\ x.status = "running" /\ ~ x.overtaken => x.target = current /\ ~ deleted
          /\ x.status = "cancel_requested" /\ ~ x.overtaken /\ ~ deleted
                => x.target = current
          /\ x.status = "queued" /\ x.worker = "admitting" => x.target = current /\ ~ deleted

Table(s) == s \in Seq(Executions) /\ Len(s) <= MaxRuns /\ \A r \in DOMAIN s : RunOK(r, s[r])

\* The Revisions are in line, and each request still holds a base in it.
Lines ==
    /\ RevisionsLinear
    /\ \A w \in Writers : writers[w] # NotWriting =>
          /\ writers[w].version # 0 /\ writers[w].key # None
          /\ writers[w].base <= Cardinality(revisions[writers[w].version])

-----------------------------------------------------------------------------
(* Sequences. *)

LEMMA SeqFacts ==
    ASSUME NEW S, NEW s \in Seq(S)
    PROVE  Len(s) \in Nat /\ DOMAIN s = 1 .. Len(s) /\ \A i \in 1 .. Len(s) : s[i] \in S
OBVIOUS

\* A bounded sequence is a function on its places.
LEMMA Bounded ==
    ASSUME NEW S, NEW n \in Nat, NEW s
    PROVE  s \in BoundedSeq(S, n) <=> \E m \in 0 .. n : s \in [1 .. m -> S]
BY DEF BoundedSeq, SeqOf

LEMMA NoTexts == <<>> \in ContextTexts /\ NoReport \in ContextTexts
<1>1. <<>> \in [1 .. 0 -> Contents] /\ 0 \in 0 .. MaxSources
  BY ConstantsAssumption
<1> QED
  BY <1>1, Bounded, ConstantsAssumption DEF ContextTexts, NoReport

-----------------------------------------------------------------------------
(* The table of runs. *)

\* A run is written over, or added, and the rest of the table stands.
LEMMA Written ==
    ASSUME NEW s, Table(s), NEW r \in DOMAIN s, NEW x \in Executions, RunOK(r, x)
    PROVE  Table([s EXCEPT ![r] = x])
<1>1. s \in Seq(Executions) /\ Len(s) <= MaxRuns /\ \A q \in DOMAIN s : RunOK(q, s[q])
  BY DEF Table
<1>2. PICK t : t = [s EXCEPT ![r] = x]
  OBVIOUS
<1>3. t \in Seq(Executions) /\ Len(t) = Len(s) /\ DOMAIN t = DOMAIN s
        /\ \A q \in DOMAIN s : t[q] = IF q = r THEN x ELSE s[q]
  BY <1>1, <1>2, ExceptSeq
<1> QED
  BY <1>1, <1>2, <1>3 DEF Table

LEMMA Added ==
    ASSUME NEW s, Table(s), Len(s) < MaxRuns, NEW x \in Executions, RunOK(Len(s) + 1, x)
    PROVE  Table(Append(s, x))
<1>1. s \in Seq(Executions) /\ Len(s) \in Nat /\ DOMAIN s = 1 .. Len(s)
        /\ \A q \in DOMAIN s : RunOK(q, s[q])
  BY DEF Table
<1>2. PICK t : t = Append(s, x)
  OBVIOUS
<1>3. t \in Seq(Executions) /\ Len(t) = Len(s) + 1 /\ DOMAIN t = 1 .. Len(s) + 1
        /\ (\A q \in 1 .. Len(s) : t[q] = s[q]) /\ t[Len(s) + 1] = x
  BY <1>1, <1>2, AppendProperties
<1>4. \A q \in DOMAIN t : RunOK(q, t[q])
  BY <1>1, <1>3
<1>5. Len(t) <= MaxRuns
  BY <1>1, <1>3, ConstantsAssumption
<1> QED
  BY <1>2, <1>3, <1>4, <1>5 DEF Table

\* A row that is there.
LEMMA RowIs ==
    ASSUME NEW s, Table(s), NEW r \in DOMAIN s
    PROVE  s[r] \in Executions /\ RunOK(r, s[r]) /\ r \in 1 .. Len(s) /\ Len(s) \in Nat
BY DEF Table

\* What a run may be written as: the same run of the same target, ended, asked to
\* stop where nobody is at work, or otherwise as active as it was.
LEMMA SameRun ==
    ASSUME NEW s, Table(s), NEW r \in DOMAIN s, NEW x \in Executions,
           x.kind = s[r].kind, x.target = s[r].target, x.input = s[r].input,
           x.attempt = s[r].attempt, x.read \in {s[r].read, NoReport},
           \/ x.status \in Terminal
           \/ /\ x.overtaken = s[r].overtaken
              /\ \/ /\ x.status = s[r].status
                    /\ x.worker = s[r].worker \/ x.worker # "admitting"
                 \/ x.status = "cancel_requested" /\ s[r].status = "running"
    PROVE  Table([s EXCEPT ![r] = x])
<1>1. s[r] \in Executions /\ RunOK(r, s[r])
  BY RowIs
<1>2. "running" \notin Terminal /\ "cancel_requested" \notin Terminal /\ "queued" \notin Terminal
  BY DEF Terminal
<1>3. RunOK(r, x)
  BY <1>1, <1>2 DEF RunOK
<1> QED
  BY <1>3, Written

LEMMA RunFields ==
    ASSUME NEW x \in Executions
    PROVE  /\ x.kind \in {"theme", "article"} /\ x.target \in 1 .. MaxVersions
           /\ x.input \in 1 .. MaxRuns /\ x.attempt \in 1 .. MaxRuns
           /\ x.origin \in {"initial", "automatic", "manual"}
           /\ x.status \in Active \cup Terminal
           /\ x.asked \in BOOLEAN /\ x.overtaken \in BOOLEAN
           /\ x.worker \in {"none", "claiming", "admitting", "refusing", "asking", "failing"}
           /\ x.read \in ContextTexts /\ LetGo(x) \in Executions
           /\ \A status \in Active \cup Terminal : Ended(x, status) \in Executions
           /\ Failed(x) \in Executions /\ Failed(x).status \in {"cancelled", "failed"}
           /\ GivenUp(x) \in Executions /\ Asked(x) \in Executions
           /\ [x EXCEPT !.asked = TRUE] \in Executions
<1>1. /\ "cancelled" \in Terminal /\ "failed" \in Terminal
      /\ "cancel_requested" \in Active
  BY DEF Terminal, Active
<1>2. \A status \in Active \cup Terminal : Ended(x, status) \in Executions
  BY NoTexts DEF Ended, Executions, NoReport
<1>3. Failed(x) \in Executions /\ Failed(x).status \in {"cancelled", "failed"}
  BY <1>1, <1>2 DEF Failed, Ended, Executions
<1>4. GivenUp(x) \in Executions /\ Asked(x) \in Executions
        /\ [x EXCEPT !.asked = TRUE] \in Executions
  BY <1>1 DEF GivenUp, Asked, Executions
<1>5. LetGo(x) \in Executions
  BY NoTexts DEF LetGo, Executions, NoReport
<1> QED
  BY <1>2, <1>3, <1>4, <1>5 DEF Executions

\* A handler ends a run, or leaves it as it was.
LEMMA LetGoRun ==
    ASSUME NEW s, Table(s), NEW r \in DOMAIN s
    PROVE  Table([s EXCEPT ![r] = LetGo(s[r])])
<1>1. s[r] \in Executions
  BY RowIs
<1>2. PICK x : x = LetGo(s[r])
  OBVIOUS
<1>3. x \in Executions
  BY <1>1, <1>2, RunFields
<1>4. x.kind = s[r].kind /\ x.target = s[r].target /\ x.input = s[r].input
        /\ x.attempt = s[r].attempt /\ x.read = NoReport /\ x.status = s[r].status
        /\ x.worker = "none" /\ x.overtaken = s[r].overtaken
  BY <1>1, <1>2 DEF LetGo, Executions, NoReport
<1> QED
  BY <1>2, <1>3, <1>4, SameRun

LEMMA EndedRun ==
    ASSUME NEW s, Table(s), NEW r \in DOMAIN s, NEW status \in Terminal
    PROVE  Table([s EXCEPT ![r] = Ended(s[r], status)])
<1>1. s[r] \in Executions
  BY RowIs
<1>2. PICK x : x = Ended(s[r], status)
  OBVIOUS
<1>3. x \in Executions
  BY <1>1, <1>2, RunFields
<1>4. x.kind = s[r].kind /\ x.target = s[r].target /\ x.input = s[r].input
        /\ x.attempt = s[r].attempt /\ x.read = NoReport /\ x.status = status
  BY <1>1, <1>2 DEF Ended, Executions, NoReport
<1> QED
  BY <1>2, <1>3, <1>4, SameRun

LEMMA FailedRun ==
    ASSUME NEW s, Table(s), NEW r \in DOMAIN s
    PROVE  Table([s EXCEPT ![r] = Failed(s[r])])
<1>1. "cancelled" \in Terminal /\ "failed" \in Terminal
  BY DEF Terminal
<1>2. PICK status \in Terminal : Failed(s[r]) = Ended(s[r], status)
  BY <1>1 DEF Failed
<1> QED
  BY <1>2, EndedRun

\* Asked to stop: a run at rest ends, one at work is told.
LEMMA AskedRun ==
    ASSUME NEW s, Table(s), NEW r \in DOMAIN s, s[r].status \in {"queued", "running"}
    PROVE  Table([s EXCEPT ![r] = Asked(s[r])])
<1>1. s[r] \in Executions
  BY RowIs
<1>2. PICK x : x = Asked(s[r])
  OBVIOUS
<1>3. x \in Executions
  BY <1>1, <1>2, RunFields
<1>4. /\ x.kind = s[r].kind /\ x.target = s[r].target /\ x.input = s[r].input
      /\ x.attempt = s[r].attempt /\ x.read = s[r].read /\ x.overtaken = s[r].overtaken
      /\ x.status = IF s[r].status = "queued" THEN "cancelled" ELSE "cancel_requested"
  BY <1>1, <1>2 DEF Asked, Executions
<1>5. "cancelled" \in Terminal
  BY DEF Terminal
<1> QED
  BY <1>2, <1>3, <1>4, <1>5, SameRun

\* A new run of a target, numbered after some run before it.
LEMMA QueuedRun ==
    ASSUME NEW s, Table(s), Len(s) < MaxRuns, NEW kind \in {"theme", "article"},
           NEW target \in 1 .. MaxVersions, NEW input \in 1 .. Len(s) + 1,
           NEW attempt \in 1 .. Len(s) + 1, NEW origin \in {"initial", "automatic", "manual"},
           kind = "theme" => themes[target].content # None,
           kind = "article" => target \in DOMAIN versions /\ Complete(target)
    PROVE  Table(Append(s, NewRun(kind, target, input, attempt, origin)))
<1>1. PICK x : x = NewRun(kind, target, input, attempt, origin)
  OBVIOUS
<1>2. /\ x.kind = kind /\ x.target = target /\ x.input = input /\ x.attempt = attempt
      /\ x.status = "queued" /\ x.worker = "none" /\ x.read = NoReport
  BY <1>1 DEF NewRun, NoReport
<1>3. Len(s) \in Nat /\ MaxRuns \in Nat
  BY ConstantsAssumption DEF Table
<1>4. x \in Executions
  <2>1. input \in 1 .. MaxRuns /\ attempt \in 1 .. MaxRuns /\ "queued" \in Active
    BY <1>3 DEF Active
  <2> QED
    BY <1>1, <2>1, NoTexts DEF NewRun, Executions, NoReport
<1>5. RunOK(Len(s) + 1, x)
  BY <1>2, <1>3 DEF RunOK
<1> QED
  BY <1>1, <1>4, <1>5, Added

-----------------------------------------------------------------------------
(* The steps that write runs alone. *)

LEMMA TaskFacts ==
    ASSUME TypeOKVersions
    PROVE  /\ DOMAIN versions = 1 .. Len(versions) /\ Len(versions) \in 1 .. MaxVersions
           /\ current \in DOMAIN versions /\ current \in 1 .. MaxVersions
           /\ \A v \in DOMAIN versions : /\ v \in 1 .. MaxVersions
                                         /\ versions[v].theme \in 0 .. MaxVersions
                                         /\ versions[v].sources \in BoundedSeq(SourceIds, MaxSources)
<1>1. PICK S : S = [sources : BoundedSeq(SourceIds, MaxSources), theme : 0 .. MaxVersions]
  OBVIOUS
<1>2. versions \in Seq(S)
  BY <1>1 DEF TypeOKVersions
<1>3. Len(versions) \in Nat /\ DOMAIN versions = 1 .. Len(versions)
        /\ \A v \in 1 .. Len(versions) : versions[v] \in S
  BY <1>2, SeqFacts
<1>4. \A v \in 1 .. Len(versions) : versions[v].theme \in 0 .. MaxVersions
                                   /\ versions[v].sources \in BoundedSeq(SourceIds, MaxSources)
  BY <1>1, <1>3
<1>5. Len(versions) <= MaxVersions /\ current \in DOMAIN versions /\ MaxVersions \in Nat
  BY ConstantsAssumption DEF TypeOKVersions
<1> QED
  BY <1>3, <1>4, <1>5

LEMMA QueueIs ==
    ASSUME Table(runs), NEW kind \in {"theme", "article"},
           NEW target \in 1 .. MaxVersions, NEW input \in 1 .. Len(runs) + 1,
           NEW attempt \in 1 .. Len(runs) + 1, NEW origin \in {"initial", "automatic", "manual"},
           kind = "theme" => themes[target].content # None,
           kind = "article" => target \in DOMAIN versions /\ Complete(target),
           Queue(kind, target, input, attempt, origin)
    PROVE  Table(runs')
BY QueuedRun DEF Queue

\* The numbers of a run leave room for the next.
LEMMA NextNumbers ==
    ASSUME NEW s, Table(s), NEW r \in DOMAIN s
    PROVE  /\ s[r].input \in 1 .. Len(s) + 1 /\ s[r].attempt + 1 \in 1 .. Len(s) + 1
           /\ s[r].input + 1 \in 1 .. Len(s) + 1 /\ 1 \in 1 .. Len(s) + 1
<1>1. /\ s[r] \in Executions /\ r \in 1 .. Len(s) /\ Len(s) \in Nat
      /\ s[r].input <= r /\ s[r].attempt <= r
  BY RowIs DEF RunOK
<1>2. s[r].input \in 1 .. MaxRuns /\ s[r].attempt \in 1 .. MaxRuns /\ MaxRuns \in Nat
  BY <1>1, RunFields, ConstantsAssumption
<1> QED
  BY <1>1, <1>2

LEMMA QueueThemeTable ==
    ASSUME TypeOKVersions, Stored, Table(runs), NEW t \in DOMAIN versions, QueueTheme(t)
    PROVE  Table(runs')
<1>1. t \in 1 .. MaxVersions /\ Len(runs) \in Nat /\ 1 \in 1 .. Len(runs) + 1
  BY TaskFacts DEF Table
<1>2. themes[t].content # None
  BY <1>1 DEF QueueTheme, Stored
<1> QED
  BY <1>1, <1>2, QueueIs DEF QueueTheme

LEMMA RetryThemeTable ==
    ASSUME TypeOKVersions, Stored, Table(runs), RetryTheme
    PROVE  Table(runs')
<1>1. PICK t : t = versions[current].theme
  OBVIOUS
<1>2. t \in 1 .. MaxVersions /\ themes[t].content # None
  BY <1>1, TaskFacts DEF RetryTheme, Stored
<1>3. Len(runs) \in Nat /\ 1 \in 1 .. Len(runs) + 1
  BY DEF Table
<1>4. CASE Queue("theme", t, 1, 1, "initial")
  BY <1>2, <1>3, <1>4, QueueIs
<1>5. ASSUME NEW r \in RunsOf("theme", t), Queue("theme", t, 1, runs[r].attempt + 1, "manual")
      PROVE  Table(runs')
  <2>1. r \in DOMAIN runs /\ runs[r].attempt + 1 \in 1 .. Len(runs) + 1
    BY <1>5, NextNumbers DEF RunsOf
  <2> QED
    BY <1>2, <1>3, <1>5, <2>1, QueueIs
<1> QED
  BY <1>1, <1>4, <1>5 DEF RetryTheme

LEMMA GenerateTable ==
    ASSUME TypeOKVersions, Table(runs), Generate
    PROVE  Table(runs')
<1>1. current \in 1 .. MaxVersions /\ current \in DOMAIN versions /\ Complete(current)
  BY TaskFacts DEF Generate
<1>2. Len(runs) \in Nat /\ 1 \in 1 .. Len(runs) + 1
  BY DEF Table
<1>3. CASE Queue("article", current, 1, 1, "initial")
  BY <1>1, <1>2, <1>3, QueueIs
<1>4. ASSUME NEW r \in RunsOf("article", current),
             \/ Queue("article", current, runs[r].input, runs[r].attempt + 1, "manual")
             \/ Queue("article", current, runs[r].input + 1, 1, "initial")
      PROVE  Table(runs')
  <2>1. /\ runs[r].input \in 1 .. Len(runs) + 1 /\ runs[r].attempt + 1 \in 1 .. Len(runs) + 1
        /\ runs[r].input + 1 \in 1 .. Len(runs) + 1
    BY <1>4, NextNumbers DEF RunsOf
  <2>2. CASE Queue("article", current, runs[r].input, runs[r].attempt + 1, "manual")
    BY <1>1, <2>1, <2>2, QueueIs
  <2>3. CASE Queue("article", current, runs[r].input + 1, 1, "initial")
    BY <1>1, <1>2, <2>1, <2>3, QueueIs
  <2> QED
    BY <1>4, <2>2, <2>3
<1> QED
  BY <1>3, <1>4 DEF Generate

LEMMA SweepTable ==
    ASSUME Table(runs), NEW r \in DOMAIN runs, Sweep(r)
    PROVE  Table(runs')
<1>1. PICK x : x = GivenUp(runs[r])
  OBVIOUS
<1>2. runs[r] \in Executions /\ x \in Executions
  BY <1>1, RowIs, RunFields
<1>3. x.kind = runs[r].kind /\ x.target = runs[r].target /\ x.input = runs[r].input
        /\ x.attempt = runs[r].attempt /\ x.read = runs[r].read /\ x.status \in Terminal
  BY <1>1, <1>2 DEF GivenUp, Executions, Terminal
<1> QED
  BY <1>1, <1>2, <1>3, SameRun DEF Sweep

LEMMA CancelTable ==
    ASSUME Table(runs), NEW r \in DOMAIN runs, Cancel(r)
    PROVE  Table(runs')
BY AskedRun DEF Cancel

LEMMA FailReadsTable ==
    ASSUME Table(runs), NEW r \in DOMAIN runs, FailReads(r)
    PROVE  Table(runs')
<1>1. CASE Surrendered(runs[r].status)
  BY <1>1, LetGoRun DEF FailReads
<1>2. CASE ~ Surrendered(runs[r].status)
  <2>1. PICK x : x = [runs[r] EXCEPT !.worker = "failing"]
    OBVIOUS
  <2>2. runs[r] \in Executions
    BY RowIs
  <2>3. x \in Executions /\ x.kind = runs[r].kind /\ x.target = runs[r].target
          /\ x.input = runs[r].input /\ x.attempt = runs[r].attempt /\ x.read = runs[r].read
          /\ x.status = runs[r].status /\ x.overtaken = runs[r].overtaken /\ x.worker = "failing"
    BY <2>1, <2>2 DEF Executions
  <2>4. runs' = [runs EXCEPT ![r] = x]
    BY <1>2, <2>1 DEF FailReads
  <2> QED
    BY <2>3, <2>4, SameRun
<1> QED
  BY <1>1, <1>2

LEMMA ClaimReadsTable ==
    ASSUME Table(runs), NEW r \in DOMAIN runs, ClaimReads(r)
    PROVE  Table(runs')
<1>1. PICK x : x = [runs[r] EXCEPT !.worker = "claiming"]
  OBVIOUS
<1>2. runs[r] \in Executions
  BY RowIs
<1>3. x \in Executions /\ x.kind = runs[r].kind /\ x.target = runs[r].target
        /\ x.input = runs[r].input /\ x.attempt = runs[r].attempt /\ x.read = runs[r].read
        /\ x.status = runs[r].status /\ x.overtaken = runs[r].overtaken /\ x.worker = "claiming"
  BY <1>1, <1>2 DEF Executions
<1>4. runs' = [runs EXCEPT ![r] = x]
  BY <1>1 DEF ClaimReads
<1> QED
  BY <1>3, <1>4, SameRun

\* What a handler has judged, and what it has read.
LEMMA JudgedRun ==
    ASSUME NEW x \in Executions, NEW admitted \in BOOLEAN, NEW read \in ContextTexts
    PROVE  LET y == Judged(x, admitted, read) IN
           /\ y \in Executions /\ y.kind = x.kind /\ y.target = x.target
           /\ y.input = x.input /\ y.attempt = x.attempt /\ y.status = x.status
           /\ y.overtaken = x.overtaken /\ y.read = read
           /\ y.worker = IF admitted THEN "admitting" ELSE "refusing"
BY DEF Judged, Executions

LEMMA ClaimThemeTable ==
    ASSUME TypeOKVersions, Table(runs), NEW r \in DOMAIN runs, ClaimTheme(r)
    PROVE  Table(runs')
<1>1. PICK a, c : /\ a = (Analysed(runs[r].target) # {})
                  /\ c = IF Analysed(runs[r].target) = {} THEN <<>>
                         ELSE CHOOSE texts \in Analysed(runs[r].target) : TRUE
  OBVIOUS
<1>2. runs[r] \in Executions /\ runs[r].kind = "theme" /\ RunOK(r, runs[r])
        /\ runs[r].target \in 1 .. MaxVersions
  BY RowIs, RunFields DEF ClaimTheme
<1>3. c \in {NoReport, themes[runs[r].target].context} /\ c \in ContextTexts
  <2>1. c \in {NoReport, themes[runs[r].target].context}
    BY <1>1 DEF Analysed, NoReport
  <2> QED
    BY <1>2, <2>1, NoTexts DEF TypeOKVersions
<1>4. PICK x : x = Judged(runs[r], a, c)
  OBVIOUS
<1>5. x \in Executions /\ x.kind = "theme" /\ x.target = runs[r].target
        /\ x.input = runs[r].input /\ x.attempt = runs[r].attempt /\ x.read = c
  <2>1. a \in BOOLEAN
    BY <1>1
  <2> QED
    BY <1>2, <1>3, <1>4, <2>1, JudgedRun
<1>6. RunOK(r, x)
  BY <1>2, <1>3, <1>5 DEF RunOK
<1>7. runs' = [runs EXCEPT ![r] = x]
  BY <1>1, <1>4 DEF ClaimTheme
<1> QED
  BY <1>5, <1>6, <1>7, Written

\* A handler admits an article only of a version it has read as current.
LEMMA ClaimArticleTable ==
    ASSUME Table(runs), NEW r \in DOMAIN runs, ClaimArticle(r)
    PROVE  Table(runs')
<1>1. PICK a : a = TargetIsCurrent(runs[r])
  OBVIOUS
<1>2. a \in BOOLEAN /\ (a => ~ deleted /\ runs[r].target = current)
  BY <1>1 DEF TargetIsCurrent
<1>3. runs[r] \in Executions /\ runs[r].kind = "article" /\ RunOK(r, runs[r])
  BY RowIs DEF ClaimArticle
<1>4. PICK x : x = Judged(runs[r], a, <<>>)
  OBVIOUS
<1>5. x \in Executions /\ x.kind = "article" /\ x.target = runs[r].target
        /\ x.input = runs[r].input /\ x.attempt = runs[r].attempt
        /\ x.status = runs[r].status /\ x.overtaken = runs[r].overtaken
        /\ x.worker = IF a THEN "admitting" ELSE "refusing"
  BY <1>2, <1>3, <1>4, NoTexts, JudgedRun
<1>6. RunOK(r, x)
  BY <1>2, <1>3, <1>5 DEF RunOK
<1>7. runs' = [runs EXCEPT ![r] = x]
  BY <1>1, <1>4 DEF ClaimArticle
<1> QED
  BY <1>5, <1>6, <1>7, Written

\* A run that is still queued when its claim commits has kept the task where the
\* handler read it; of any other, the claim says that it was overtaken.
LEMMA ClaimCommitsTable ==
    ASSUME Table(runs), NEW r \in DOMAIN runs, ClaimCommits(r)
    PROVE  Table(runs')
<1>1. CASE runs' = [runs EXCEPT ![r] = LetGo(runs[r])]
  BY <1>1, LetGoRun
<1>2. CASE runs' = [runs EXCEPT ![r] = Ended(runs[r], "failed")]
  <2>1. "failed" \in Terminal
    BY DEF Terminal
  <2> QED
    BY <1>2, <2>1, EndedRun
<1>3. CASE runs[r].worker = "admitting" /\ runs' = [runs EXCEPT ![r] = Admitted(runs[r])]
  <2>1. PICK x : x = Admitted(runs[r])
    OBVIOUS
  <2>2. runs[r] \in Executions /\ RunOK(r, runs[r])
    BY RowIs
  <2>3. x \in Executions /\ x.kind = runs[r].kind /\ x.target = runs[r].target
          /\ x.input = runs[r].input /\ x.attempt = runs[r].attempt /\ x.read = runs[r].read
          /\ x.status = "running" /\ x.overtaken = (runs[r].status # "queued")
    BY <2>1, <2>2 DEF Admitted, Executions, Active
  <2>4. RunOK(r, x)
    BY <1>3, <2>2, <2>3 DEF RunOK
  <2> QED
    BY <1>3, <2>1, <2>3, <2>4, Written
<1> QED
  BY <1>1, <1>2, <1>3 DEF ClaimCommits

LEMMA SucceedArticleTable ==
    ASSUME Table(runs), NEW r \in DOMAIN runs, SucceedArticle(r)
    PROVE  Table(runs')
<1>1. ArticleVerdict(runs[r]) \in Terminal
  BY DEF ArticleVerdict, Terminal
<1> QED
  BY <1>1, EndedRun DEF SucceedArticle

\* A failed run ends, and its automatic attempt is of the same target.
LEMMA FailCommitsTable ==
    ASSUME TypeOKVersions, Table(runs), NEW r \in DOMAIN runs, FailCommits(r)
    PROVE  Table(runs')
<1>1. PICK run, x, ended, next :
        /\ run = runs[r]
        /\ x = Failed(IF deleted THEN [run EXCEPT !.asked = TRUE] ELSE run)
        /\ ended = [runs EXCEPT ![r] = x]
        /\ next = NewRun(run.kind, run.target, run.input, run.attempt + 1, "automatic")
  OBVIOUS
<1>2. run \in Executions /\ RunOK(r, run)
  BY <1>1, RowIs
<1>3. PICK y : y = (IF deleted THEN [run EXCEPT !.asked = TRUE] ELSE run)
  OBVIOUS
<1>4. /\ y \in Executions /\ y.kind = run.kind /\ y.target = run.target /\ y.input = run.input
      /\ y.attempt = run.attempt
  BY <1>2, <1>3, RunFields DEF Executions
<1>5. /\ x \in Executions /\ x.kind = run.kind /\ x.target = run.target /\ x.input = run.input
      /\ x.attempt = run.attempt /\ x.read = NoReport /\ x.status \in Terminal
  <2>1. x = Failed(y)
    BY <1>1, <1>3
  <2>2. x \in Executions /\ x.status \in Terminal
    BY <1>4, <2>1, RunFields DEF Terminal
  <2>3. PICK status : x = Ended(y, status)
    BY <2>1 DEF Failed
  <2>4. /\ x.kind = y.kind /\ x.target = y.target /\ x.input = y.input
        /\ x.attempt = y.attempt /\ x.read = NoReport
    BY <1>4, <2>3 DEF Ended, Executions, NoReport
  <2> QED
    BY <1>4, <2>2, <2>4
<1>6. Table(ended)
  BY <1>1, <1>5, SameRun
<1>7. CASE runs' = ended
  BY <1>6, <1>7
<1>8. CASE runs' = [runs EXCEPT ![r] = LetGo(run)]
  BY <1>1, <1>8, LetGoRun
<1>9. CASE runs' = Append(ended, next) /\ Len(runs) < MaxRuns
  <2>1. Len(ended) = Len(runs) /\ r \in DOMAIN ended /\ ended[r] = x
    BY <1>1, <1>5, ExceptSeq, RowIs DEF Table
  <2>2. run.input \in 1 .. Len(ended) + 1 /\ run.attempt + 1 \in 1 .. Len(ended) + 1
    <3>1. /\ ended[r].input \in 1 .. Len(ended) + 1
          /\ ended[r].attempt + 1 \in 1 .. Len(ended) + 1
      BY <1>6, <2>1, NextNumbers
    <3> QED
      BY <1>5, <2>1, <3>1
  <2>3. run.kind \in {"theme", "article"} /\ run.target \in 1 .. MaxVersions
          /\ (run.kind = "theme" => themes[run.target].content # None)
          /\ (run.kind = "article" => run.target \in DOMAIN versions /\ Complete(run.target))
    BY <1>2, RunFields DEF RunOK
  <2>4. Len(ended) < MaxRuns
    BY <1>9, <2>1
  <2>5. PICK k, t, i, a, o : /\ k = run.kind /\ t = run.target /\ i = run.input
                             /\ a = run.attempt + 1 /\ o = "automatic"
    OBVIOUS
  <2>6. Table(Append(ended, NewRun(k, t, i, a, o)))
    <3>1. k \in {"theme", "article"} /\ t \in 1 .. MaxVersions /\ i \in 1 .. Len(ended) + 1
            /\ a \in 1 .. Len(ended) + 1 /\ o \in {"initial", "automatic", "manual"}
      BY <1>5, <2>2, <2>3, <2>5
    <3>2. (k = "theme" => themes[t].content # None)
            /\ (k = "article" => t \in DOMAIN versions /\ Complete(t))
      BY <2>3, <2>5
    <3> QED
      BY <1>6, <2>4, <3>1, <3>2, QueuedRun
  <2> QED
    BY <1>1, <1>9, <2>5, <2>6
<1>10. runs' = ended \/ runs' = [runs EXCEPT ![r] = LetGo(run)]
         \/ (runs' = Append(ended, next) /\ Len(runs) < MaxRuns)
  BY <1>1 DEF FailCommits
<1> QED
  BY <1>7, <1>8, <1>9, <1>10

-----------------------------------------------------------------------------
(* The steps that leave the list of versions as it is. *)

LEMMA SourcesOf ==
    ASSUME TypeOKVersions, NEW v \in DOMAIN versions
    PROVE  /\ \E m \in 0 .. MaxSources : versions[v].sources \in [1 .. m -> SourceIds]
           /\ \A i \in DOMAIN versions[v].sources : versions[v].sources[i] \in SourceIds
BY TaskFacts, Bounded, ConstantsAssumption

\* A report stays: what was complete is complete after any step that adds to it.
LEMMA CompleteKept ==
    ASSUME TypeOKVersions, NEW v \in DOMAIN versions, versions'[v] = versions[v],
           \A i \in DOMAIN versions[v].sources :
              sources[versions[v].sources[i]].state = "reported"
                 => sources'[versions[v].sources[i]].state = "reported",
           \A t \in 1 .. MaxVersions : themes[t].report # NoReport => themes'[t].report # NoReport,
           Complete(v)
    PROVE  Complete(v)'
<1>1. versions[v].theme \in 0 .. MaxVersions /\ MaxVersions \in Nat
  BY TaskFacts, ConstantsAssumption
<1>2. (versions[v].theme # 0 => themes[versions[v].theme].report # NoReport)'
  <2>1. versions[v].theme # 0 => versions[v].theme \in 1 .. MaxVersions
    BY <1>1
  <2>2. versions[v].theme # 0 => themes[versions[v].theme].report # NoReport
    BY DEF Complete
  <2> QED
    BY <2>1, <2>2 DEF NoReport
<1>3. (\A i \in DOMAIN versions[v].sources : sources[versions[v].sources[i]].state = "reported")'
  BY DEF Complete
<1> QED
  BY <1>2, <1>3 DEF Complete

LEMMA ContextKept ==
    ASSUME TypeOKVersions, NEW v \in DOMAIN versions, versions'[v] = versions[v],
           \A i \in DOMAIN versions[v].sources :
              sources'[versions[v].sources[i]].content = sources[versions[v].sources[i]].content
    PROVE  ContextOf(v)' = ContextOf(v)
BY DEF ContextOf, TextsOf

\* A table stands when a task grows around it.
LEMMA TableKept ==
    ASSUME NEW s, Table(s), deleted' = deleted,
           \A v \in DOMAIN versions : v \in DOMAIN versions' /\ (Complete(v) => Complete(v)'),
           \A t \in 1 .. MaxVersions : themes[t].content # None =>
              themes'[t].content # None /\ themes'[t].context = themes[t].context,
           \/ current' = current
           \/ \A r \in DOMAIN s : s[r].kind = "article" /\ s[r].target = current =>
                                     s[r].status \notin Active
    PROVE  Table(s)'
<1>1. s \in Seq(Executions) /\ Len(s) <= MaxRuns /\ DOMAIN s = 1 .. Len(s)
  BY DEF Table
<1>2. ASSUME NEW r \in DOMAIN s PROVE RunOK(r, s[r])'
  <2>1. s[r] \in Executions /\ RunOK(r, s[r]) /\ s[r].target \in 1 .. MaxVersions
    BY RowIs, RunFields
  <2>2. s[r].kind = "theme" => /\ themes'[s[r].target].content # None
                               /\ s[r].read \in {NoReport, themes'[s[r].target].context}
    BY <2>1 DEF RunOK
  <2>3. s[r].kind = "article" => s[r].target \in DOMAIN versions' /\ Complete(s[r].target)'
    <3>1. ASSUME s[r].kind = "article"
          PROVE  s[r].target \in DOMAIN versions' /\ Complete(s[r].target)'
      <4>1. PICK v : v = s[r].target
        OBVIOUS
      <4>2. v \in DOMAIN versions /\ Complete(v)
        BY <2>1, <3>1, <4>1 DEF RunOK
      <4>3. v \in DOMAIN versions' /\ Complete(v)'
        BY <4>2
      <4> QED
        BY <4>1, <4>3
    <3> QED
      BY <3>1
  <2>4. /\ \/ s[r].status = "running" /\ ~ s[r].overtaken
           \/ s[r].status = "queued" /\ s[r].worker = "admitting"
        /\ s[r].kind = "article"
        => s[r].target = current' /\ ~ deleted'
    BY <2>1 DEF RunOK, Active
  <2>5. s[r].kind = "article" /\ s[r].status = "cancel_requested" /\ ~ s[r].overtaken
          /\ ~ deleted' => s[r].target = current'
    BY <2>1 DEF RunOK, Active
  <2>6. s[r].input <= r /\ s[r].attempt <= r
    BY <2>1 DEF RunOK
  <2> QED
    BY <2>2, <2>3, <2>4, <2>5, <2>6 DEF RunOK, NoReport
<1> QED
  BY <1>1, <1>2 DEF Table, Executions, ContextTexts, Active, Terminal

\* A version keeps what it refers to while states and reports are added.
LEMMA StoredKept ==
    ASSUME TypeOKVersions, Stored, versions' = versions,
           \A id \in SourceIds : sources'[id].content = sources[id].content,
           \A t \in 1 .. MaxVersions :
              \/ themes'[t] = themes[t]
              \/ /\ themes[t].content # None
                 /\ themes'[t].content = themes[t].content
                 /\ themes'[t].context = themes[t].context
                 /\ themes'[t].report \in {NoReport, themes[t].context}
    PROVE  Stored'
<1>1. DOMAIN versions = 1 .. Len(versions) /\ Len(versions) \in 1 .. MaxVersions
        /\ \A v \in DOMAIN versions : versions[v].theme \in 0 .. MaxVersions
  BY TaskFacts
<1>2. \A v \in DOMAIN versions : \A i \in DOMAIN versions[v].sources :
          versions[v].sources[i] \in SourceIds
  BY SourcesOf
<1>3. \A v \in DOMAIN versions : ContextOf(v)' = ContextOf(v)
  BY <1>2, ContextKept
<1>4. (\A v \in DOMAIN versions : \A i \in DOMAIN versions[v].sources :
          /\ versions[v].sources[i][1] <= Len(versions)
          /\ sources[versions[v].sources[i]].content # None)'
  BY <1>2 DEF Stored
<1>5. (\A n \in 1 .. MaxVersions : n > Len(versions) => themes[n] = NoTheme)'
  <2>1. ASSUME NEW n \in 1 .. MaxVersions, n > Len(versions) PROVE themes'[n] = NoTheme
    <3>1. themes[n] = NoTheme
      BY <2>1 DEF Stored
    <3>2. themes[n].content = None
      BY <3>1 DEF NoTheme
    <3> QED
      BY <3>1, <3>2
  <2> QED
    BY <2>1 DEF NoTheme, NoReport
<1>6. (\A v \in DOMAIN versions : versions[v].theme # 0 =>
          /\ themes[versions[v].theme].content # None
          /\ themes[versions[v].theme].context = ContextOf(v))'
  <2>1. ASSUME NEW v \in DOMAIN versions, versions[v].theme # 0
        PROVE  /\ themes'[versions[v].theme].content # None
               /\ themes'[versions[v].theme].context = ContextOf(v)
    <3>1. versions[v].theme \in 1 .. MaxVersions
      BY <1>1, <2>1
    <3>2. /\ themes[versions[v].theme].content # None
          /\ themes[versions[v].theme].context = ContextOf(v)
      BY <2>1 DEF Stored
    <3> QED
      BY <3>1, <3>2
  <2> QED
    BY <1>3, <2>1
<1>7. (\A t \in 1 .. MaxVersions :
          /\ themes[t].report \in {NoReport, themes[t].context}
          /\ themes[t].content = None => themes[t] = NoTheme)'
  <2>1. ASSUME NEW t \in 1 .. MaxVersions
        PROVE  /\ themes'[t].report \in {NoReport, themes'[t].context}
               /\ themes'[t].content = None => themes'[t] = NoTheme
    <3>1. /\ themes[t].report \in {NoReport, themes[t].context}
          /\ themes[t].content = None => themes[t] = NoTheme
      BY DEF Stored
    <3>2. CASE themes'[t] = themes[t]
      BY <3>1, <3>2
    <3>3. CASE ~ (themes'[t] = themes[t])
      BY <3>1, <3>3
    <3> QED
      BY <3>2, <3>3
  <2> QED
    BY <2>1 DEF NoTheme, NoReport
<1> QED
  BY <1>4, <1>5, <1>6, <1>7 DEF Stored

LEMMA Moves ==
    ASSUME TypeOKVersions, Stored, NEW s, Table(s), runs' = s,
           versions' = versions, deleted' = deleted,
           \A id \in SourceIds :
              /\ sources'[id].content = sources[id].content
              /\ sources[id].state = "reported" => sources'[id].state = "reported",
           \A t \in 1 .. MaxVersions :
              \/ themes'[t] = themes[t]
              \/ /\ themes[t].content # None /\ themes[t].report = NoReport
                 /\ themes'[t].content = themes[t].content
                 /\ themes'[t].context = themes[t].context
                 /\ themes'[t].report \in {NoReport, themes[t].context},
           \/ current' = current
           \/ \A r \in DOMAIN s : s[r].kind = "article" /\ s[r].target = current =>
                                     s[r].status \notin Active
    PROVE  Stored' /\ (Table(runs))'
<1>1. Stored'
  BY StoredKept
<1>2. \A v \in DOMAIN versions : Complete(v) => Complete(v)'
  BY SourcesOf, CompleteKept DEF NoReport
<1>3. Table(s)'
  BY <1>2, TableKept
<1> QED
  BY <1>1, <1>3

LEMMA RunsAlone ==
    ASSUME TypeOKVersions, Stored, UNCHANGED taskVars, Table(runs')
    PROVE  TypeOKVersions' /\ Stored' /\ (Table(runs))'
<1>1. PICK s : s = runs'
  OBVIOUS
<1>2. Table(s)
  BY <1>1
<1>3. Stored' /\ (Table(runs))'
  BY <1>1, <1>2, Moves DEF taskVars
<1>4. runs' \in Seq(Executions) /\ Len(runs') <= MaxRuns
  BY <1>1, <1>2 DEF Table
<1>5. TypeOKVersions'
  BY <1>4 DEF TypeOKVersions, taskVars
<1> QED
  BY <1>3, <1>5

LEMMA NoneActive ==
    ASSUME NEW v, ~ HasActiveRuns(v)
    PROVE  \A r \in DOMAIN runs : runs[r].kind = "article" /\ runs[r].target = v =>
                                   runs[r].status \notin Active
BY DEF HasActiveRuns, RunsOf

\* A 来源 that changes its state alone, and to a report if it had one.
LEMMA SourceMoves ==
    ASSUME TypeOKVersions, Stored, Table(runs), NEW id \in SourceIds,
           NEW state \in {"active", "ended", "reported"}, sources[id].state # "reported",
           sources' = [sources EXCEPT ![id].state = state],
           UNCHANGED <<themes, versions, current, deleted, edits, runs>>
    PROVE  TypeOKVersions' /\ Stored' /\ (Table(runs))'
<1>1. sources \in [SourceIds -> [content : Contents \cup {None},
                                 state : {"absent", "none", "active", "ended", "reported"}]]
  BY DEF TypeOKVersions
<1>2. /\ sources' \in [SourceIds -> [content : Contents \cup {None},
                                  state : {"absent", "none", "active", "ended", "reported"}]]
      /\ \A other \in SourceIds :
            /\ sources'[other].content = sources[other].content
            /\ sources[other].state = "reported" => sources'[other].state = "reported"
  BY <1>1
<1>3. PICK s : s = runs
  OBVIOUS
<1>4. Stored' /\ (Table(runs))'
  BY <1>2, <1>3, Moves
<1>5. TypeOKVersions'
  BY <1>2 DEF TypeOKVersions
<1> QED
  BY <1>4, <1>5

LEMMA SourceSteps ==
    ASSUME TypeOKVersions, Stored, Table(runs), NEW id \in SourceIds,
           QueueSource(id) \/ SourceRunEnds(id) \/ RetrySource(id)
    PROVE  TypeOKVersions' /\ Stored' /\ (Table(runs))'
<1>1. CASE QueueSource(id)
  BY <1>1, SourceMoves DEF QueueSource
<1>2. CASE SourceRunEnds(id)
  BY <1>2, SourceMoves DEF SourceRunEnds
<1>3. CASE RetrySource(id)
  BY <1>3, SourceMoves DEF RetrySource
<1> QED
  BY <1>1, <1>2, <1>3

\* Opening or dropping an edit session, and restoring a version.
LEMMA EditSteps ==
    ASSUME TypeOKVersions, Stored, Table(runs),
           (\E e \in Edits : CreateEdit(e) \/ Discard(e)) \/ (\E v \in DOMAIN versions : Restore(v))
    PROVE  TypeOKVersions' /\ Stored' /\ (Table(runs))'
<1>1. UNCHANGED <<sources, themes, versions, deleted, runs>>
  BY DEF CreateEdit, Discard, Restore
<1>2. \/ current' = current
      \/ \A r \in DOMAIN runs : runs[r].kind = "article" /\ runs[r].target = current =>
                                   runs[r].status \notin Active
  BY NoneActive DEF CreateEdit, Discard, Restore
<1>3. PICK s : s = runs
  OBVIOUS
<1>4. Stored' /\ (Table(runs))'
  BY <1>1, <1>2, <1>3, Moves
<1>5. current' \in DOMAIN versions
  BY DEF CreateEdit, Discard, Restore, TypeOKVersions
<1>6. edits' \in [Edits -> [status : {"absent", "active", "saved", "discarded"},
                            base : 0 .. MaxVersions]]
  <2>1. current \in 0 .. MaxVersions
    BY TaskFacts
  <2>2. edits \in [Edits -> [status : {"absent", "active", "saved", "discarded"},
                            base : 0 .. MaxVersions]]
    BY DEF TypeOKVersions
  <2>3. CASE \E e \in Edits : CreateEdit(e)
    BY <2>1, <2>2, <2>3 DEF CreateEdit
  <2>4. CASE \E e \in Edits : Discard(e)
    BY <2>2, <2>4 DEF Discard
  <2>5. CASE \E v \in DOMAIN versions : Restore(v)
    BY <2>2, <2>5 DEF Restore
  <2> QED
    BY <2>3, <2>4, <2>5
<1>7. TypeOKVersions'
  BY <1>1, <1>5, <1>6 DEF TypeOKVersions
<1> QED
  BY <1>4, <1>7

\* A 主题 report is what its run read, of a snapshot that had none.
LEMMA SucceedThemeKeeps ==
    ASSUME TypeOKVersions, Stored, Table(runs), NEW r \in DOMAIN runs, SucceedTheme(r)
    PROVE  TypeOKVersions' /\ Stored' /\ (Table(runs))'
<1>1. PICK s : s = [runs EXCEPT ![r] = Ended(runs[r], ThemeVerdict(runs[r]))]
  OBVIOUS
<1>2. Table(s)
  <2>1. ThemeVerdict(runs[r]) \in Terminal
    BY DEF ThemeVerdict, Terminal
  <2> QED
    BY <1>1, <2>1, EndedRun
<1>3. PICK t : t = runs[r].target
  OBVIOUS
<1>4. /\ t \in 1 .. MaxVersions /\ themes[t].content # None
      /\ runs[r].read \in {NoReport, themes[t].context} /\ runs[r].read \in ContextTexts
  <2>1. runs[r] \in Executions /\ RunOK(r, runs[r]) /\ runs[r].kind = "theme"
    BY RowIs DEF SucceedTheme
  <2>2. runs[r].target \in 1 .. MaxVersions /\ runs[r].read \in ContextTexts
    BY <2>1, RunFields
  <2> QED
    BY <1>3, <2>1, <2>2 DEF RunOK
<1>5. ThemeVerdict(runs[r]) = "succeeded" => themes[t].report = NoReport
  BY <1>3 DEF ThemeVerdict
<1>6. themes \in [1 .. MaxVersions -> [content : Themes \cup {None},
                                       context : ContextTexts, report : ContextTexts]]
  BY DEF TypeOKVersions
<1>7. /\ themes' \in [1 .. MaxVersions -> [content : Themes \cup {None},
                                        context : ContextTexts, report : ContextTexts]]
      /\ \A u \in 1 .. MaxVersions :
              \/ themes'[u] = themes[u]
              \/ /\ themes[u].content # None /\ themes[u].report = NoReport
                 /\ themes'[u].content = themes[u].content
                 /\ themes'[u].context = themes[u].context
                 /\ themes'[u].report \in {NoReport, themes[u].context}
  <2>1. CASE ThemeVerdict(runs[r]) = "succeeded"
    <3>1. themes' = [themes EXCEPT ![t].report = runs[r].read]
      BY <1>3, <2>1 DEF SucceedTheme
    <3> QED
      BY <1>4, <1>5, <1>6, <2>1, <3>1
  <2>2. CASE ThemeVerdict(runs[r]) # "succeeded"
    BY <1>6, <2>2 DEF SucceedTheme
  <2> QED
    BY <2>1, <2>2
<1>8. runs' = s /\ UNCHANGED <<sources, versions, current, deleted, edits>>
  BY <1>1 DEF SucceedTheme
<1>9. Stored' /\ (Table(runs))'
  BY <1>2, <1>7, <1>8, Moves
<1>10. runs' \in Seq(Executions) /\ Len(runs') <= MaxRuns
  BY <1>2, <1>8 DEF Table
<1>11. TypeOKVersions'
  BY <1>7, <1>8, <1>10 DEF TypeOKVersions
<1> QED
  BY <1>9, <1>11

\* Deletion ends or asks every active article, so that no worker writes on one.
LEMMA DeleteKeeps ==
    ASSUME TypeOKVersions, Stored, Table(runs), Delete
    PROVE  TypeOKVersions' /\ Stored' /\ (Table(runs))'
<1>1. UNCHANGED <<sources, themes, versions, current, edits>> /\ deleted' = TRUE
  BY DEF Delete
<1>2. Stored'
  BY <1>1, StoredKept
<1>3. PICK s : s = runs'
  OBVIOUS
<1>4. /\ DOMAIN runs = 1 .. Len(runs) /\ Len(runs) \in Nat
      /\ \A r \in DOMAIN runs :
            s[r] = IF runs[r].kind = "article" /\ runs[r].status \in Active
                   THEN Asked(runs[r]) ELSE runs[r]
      /\ DOMAIN s = DOMAIN runs
      /\ s = [r \in DOMAIN runs |-> s[r]]
  BY <1>3 DEF Delete, Table
<1>5. ASSUME NEW r \in DOMAIN runs
      PROVE  /\ s[r] \in Executions /\ s[r].kind = runs[r].kind /\ s[r].target = runs[r].target
             /\ s[r].input = runs[r].input /\ s[r].attempt = runs[r].attempt
             /\ s[r].read = runs[r].read
             /\ s[r].kind = "article" => s[r].status \notin {"running", "queued"}
  <2>1. runs[r] \in Executions /\ Asked(runs[r]) \in Executions
    BY RowIs, RunFields
  <2>2. CASE runs[r].kind = "article" /\ runs[r].status \in Active
    <3>1. s[r] = Asked(runs[r])
      BY <1>4, <2>2
    <3> QED
      BY <2>1, <3>1 DEF Asked, Executions
  <2>3. CASE ~ (runs[r].kind = "article" /\ runs[r].status \in Active)
    <3>1. s[r] = runs[r]
      BY <1>4, <2>3
    <3> QED
      BY <2>1, <2>3, <3>1 DEF Active
  <2> QED
    BY <2>2, <2>3
<1>6. s \in Seq(Executions) /\ Len(s) = Len(runs)
  <2>1. s \in [1 .. Len(runs) -> Executions]
    BY <1>4, <1>5
  <2> QED
    BY <1>4, <2>1
<1>7. ASSUME NEW r \in DOMAIN s PROVE RunOK(r, s[r])'
  <2>1. r \in DOMAIN runs /\ RunOK(r, runs[r])
    BY <1>4, <1>7, RowIs
  <2>2. PICK x, y : x = runs[r] /\ y = s[r]
    OBVIOUS
  <2>3. /\ y.kind = x.kind /\ y.target = x.target /\ y.input = x.input /\ y.attempt = x.attempt
        /\ y.read = x.read /\ RunOK(r, x)
        /\ (y.kind = "article" => y.status \notin {"running", "queued"})
    BY <1>5, <2>1, <2>2
  <2>4. Complete(x.target) => Complete(y.target)'
    BY <1>1, <2>3 DEF Complete, NoReport
  <2>5. RunOK(r, y)'
    BY <1>1, <2>3, <2>4 DEF RunOK, NoReport
  <2> QED
    BY <2>2, <2>5
<1>8. Len(runs) <= MaxRuns
  BY DEF Table
<1>9. (Table(runs))'
  <2>1. Table(s)'
    BY <1>6, <1>7, <1>8 DEF Table
  <2> QED
    BY <1>3, <2>1
<1>10. TypeOKVersions'
  <2>1. runs' \in Seq(Executions) /\ Len(runs') <= MaxRuns
    BY <1>3, <1>6, <1>8
  <2>2. deleted' \in BOOLEAN
    BY <1>1
  <2> QED
    BY <1>1, <2>1, <2>2 DEF TypeOKVersions
<1> QED
  BY <1>2, <1>9, <1>10

-----------------------------------------------------------------------------
(* A save. *)

\* What a save of the base version writes, in names of its own: the 来源 it keeps
\* and those it makes, their texts, and the 主题 snapshot it points at.
Saves(base, n, m, changed, ids, texts, theme, row) ==
    /\ base = current /\ n = Len(versions) + 1 /\ n <= MaxVersions
    /\ m \in 0 .. MaxSources /\ theme \in Themes \cup {None}
    /\ changed \subseteq 1 .. m
    /\ ids \in [1 .. m -> SourceIds] /\ texts \in [1 .. m -> Contents]
    /\ \A i \in 1 .. m :
          IF i \in changed THEN ids[i] = <<n, i>>
          ELSE \E j \in DOMAIN versions[base].sources :
                  /\ ids[i] = versions[base].sources[j]
                  /\ texts[i] = sources[ids[i]].content
    /\ row = ThemeRevisionFor(theme, texts, n)
    /\ sources' = [id \in SourceIds |->
          IF id[1] = n /\ id[2] \in changed
          THEN [content |-> texts[id[2]], state |-> "none"] ELSE sources[id]]
    /\ themes' = IF row = n THEN [themes EXCEPT ![n] =
                          [content |-> theme, context |-> texts, report |-> NoReport]]
                 ELSE themes
    /\ versions' = Append(versions, [sources |-> ids, theme |-> row])
    /\ current' = n

LEMMA SaveIs ==
    ASSUME TypeOKVersions, NEW e \in Edits, SaveCommits(e)
    PROVE  \E base, n, m, changed, ids, texts, theme, row :
              Saves(base, n, m, changed, ids, texts, theme, row)
<1> DEFINE base == edits[e].base
           n == Len(versions) + 1
<1>1. base = edits[e].base /\ n = Len(versions) + 1
  OBVIOUS
<1>2. base = current /\ n <= MaxVersions /\ current' = n
  BY DEF SaveCommits
<1>3. PICK items \in Items(base), theme \in Themes \cup {None} :
        LET Kept(i) == /\ items[i][1] # 0
                       /\ items[i][2] = ContextOf(base)[items[i][1]]
            changed == {i \in DOMAIN items : ~Kept(i)}
            ids == [i \in DOMAIN items |->
                      IF Kept(i) THEN versions[base].sources[items[i][1]] ELSE <<n, i>>]
            texts == [i \in DOMAIN items |-> items[i][2]]
            row == ThemeRevisionFor(theme, texts, n)
        IN
        /\ sources' = [id \in SourceIds |->
             IF id[1] = n /\ id[2] \in changed
             THEN [content |-> texts[id[2]], state |-> "none"] ELSE sources[id]]
        /\ themes' = IF row = n THEN [themes EXCEPT ![n] =
                          [content |-> theme, context |-> texts, report |-> NoReport]]
                     ELSE themes
        /\ versions' = Append(versions, [sources |-> ids, theme |-> row])
  BY DEF SaveCommits
<1> DEFINE Kept(i) == items[i][1] # 0 /\ items[i][2] = ContextOf(base)[items[i][1]]
           changed == {i \in DOMAIN items : ~ Kept(i)}
           ids == [i \in DOMAIN items |->
                     IF Kept(i) THEN versions[base].sources[items[i][1]] ELSE <<n, i>>]
           texts == [i \in DOMAIN items |-> items[i][2]]
           row == ThemeRevisionFor(theme, texts, n)
<1>3a. /\ changed = {i \in DOMAIN items : ~ Kept(i)}
       /\ ids = [i \in DOMAIN items |->
              IF Kept(i) THEN versions[base].sources[items[i][1]] ELSE <<n, i>>]
       /\ texts = [i \in DOMAIN items |-> items[i][2]]
       /\ row = ThemeRevisionFor(theme, texts, n)
  OBVIOUS
<1>3b. /\ sources' = [id \in SourceIds |->
             IF id[1] = n /\ id[2] \in changed
             THEN [content |-> texts[id[2]], state |-> "none"] ELSE sources[id]]
       /\ themes' = IF row = n THEN [themes EXCEPT ![n] =
                          [content |-> theme, context |-> texts, report |-> NoReport]]
                    ELSE themes
       /\ versions' = Append(versions, [sources |-> ids, theme |-> row])
  BY <1>3
<1> HIDE DEF base, n, changed, ids, texts, row
<1>4. base \in DOMAIN versions /\ Len(versions) \in Nat /\ n \in 1 .. MaxVersions
  BY <1>1, <1>2, TaskFacts, ConstantsAssumption
<1>5. PICK k \in 0 .. MaxSources : versions[base].sources \in [1 .. k -> SourceIds]
  BY <1>4, SourcesOf
<1>6. Len(versions[base].sources) = k /\ DOMAIN versions[base].sources = 1 .. k
  BY <1>5, LenProperties, SeqDef
<1>7. PICK m \in 0 .. MaxSources : items \in [1 .. m -> (0 .. k) \X Contents]
  <2>1. items \in BoundedSeq((0 .. Len(versions[base].sources)) \X Contents, MaxSources)
    BY <1>3 DEF Items
  <2> QED
    BY <1>6, <2>1, Bounded, ConstantsAssumption
<1>8. DOMAIN items = 1 .. m
        /\ \A i \in 1 .. m : items[i][1] \in 0 .. k /\ items[i][2] \in Contents
  BY <1>7
<1>9. changed \subseteq 1 .. m /\ texts \in [1 .. m -> Contents]
        /\ \A i \in 1 .. m : texts[i] = items[i][2]
  BY <1>3a, <1>8
<1>10. ASSUME NEW i \in 1 .. m
       PROVE  /\ ids[i] \in SourceIds
              /\ IF i \in changed THEN ids[i] = <<n, i>>
                 ELSE \E j \in DOMAIN versions[base].sources :
                        /\ ids[i] = versions[base].sources[j]
                        /\ texts[i] = sources[ids[i]].content
  <2>1. CASE i \in changed
    <3>1. ids[i] = <<n, i>>
      BY <1>3a, <1>8, <2>1
    <3>2. i \in 1 .. MaxSources
      BY ConstantsAssumption
    <3> QED
      BY <1>4, <2>1, <3>1, <3>2 DEF SourceIds
  <2>2. CASE i \notin changed
    <3>1. PICK j : j = items[i][1]
      OBVIOUS
    <3>2. j # 0 /\ items[i][2] = ContextOf(base)[j] /\ ids[i] = versions[base].sources[j]
      BY <1>3a, <1>8, <2>2, <3>1
    <3>3. j \in 1 .. k
      BY <1>8, <3>1, <3>2
    <3>4. ContextOf(base)[j] = sources[versions[base].sources[j]].content
      BY <1>6, <3>3 DEF ContextOf, TextsOf
    <3>5. ids[i] \in SourceIds
      BY <1>5, <3>2, <3>3
    <3>6. texts[i] = sources[ids[i]].content
      BY <1>9, <3>2, <3>4
    <3> QED
      BY <1>6, <2>2, <3>2, <3>3, <3>5, <3>6
  <2> QED
    BY <2>1, <2>2
<1>11. ids \in [1 .. m -> SourceIds]
  <2>1. ids = [i \in 1 .. m |-> ids[i]]
    BY <1>3a, <1>8
  <2> QED
    BY <1>10, <2>1
<1>12. Saves(base, n, m, changed, ids, texts, theme, row)
  BY <1>1, <1>2, <1>3a, <1>3b, <1>9, <1>10, <1>11 DEF Saves
<1> QED
  BY <1>12

\* The snapshot a save points at: none without a 主题, one that is there, or a new one.
LEMMA RowOf ==
    ASSUME TypeOKVersions, Stored, NEW n \in 1 .. MaxVersions, themes[n] = NoTheme,
           NEW theme \in Themes \cup {None}, NEW texts, NEW row,
           row = ThemeRevisionFor(theme, texts, n)
    PROVE  /\ row \in 0 .. MaxVersions /\ (row # 0 => theme # None)
           /\ row # 0 /\ row # n => themes[row].content = theme /\ themes[row].context = texts
<1>1. PICK same : same = {t \in DOMAIN themes : /\ themes[t].content = theme
                                               /\ themes[t].context = texts}
  OBVIOUS
<1>2. row = IF theme = None THEN 0 ELSE IF same = {} THEN n ELSE CHOOSE t \in same : TRUE
  BY <1>1 DEF ThemeRevisionFor
<1>3. DOMAIN themes = 1 .. MaxVersions /\ MaxVersions \in Nat
  BY ConstantsAssumption DEF TypeOKVersions
<1>4. CASE theme = None
  BY <1>2, <1>3, <1>4
<1>5. CASE theme # None /\ same = {}
  BY <1>2, <1>3, <1>5
<1>6. CASE theme # None /\ same # {}
  <2>1. row = CHOOSE t \in same : TRUE
    BY <1>2, <1>6
  <2>2. row \in same
    BY <1>6, <2>1
  <2> QED
    BY <1>1, <1>3, <1>6, <2>2
<1> QED
  BY <1>4, <1>5, <1>6

\* The old versions keep what they refer to, and the new one refers to what it saved.
Saved(n, m, ids, texts, theme, row) ==
    /\ n \in 1 .. MaxVersions /\ n = Len(versions) + 1
    /\ themes[n] = NoTheme
    /\ DOMAIN versions' = 1 .. n /\ Len(versions') = n
    /\ \A v \in DOMAIN versions : v < n /\ versions'[v] = versions[v]
    /\ versions'[n].sources = ids /\ versions'[n].theme = row
    /\ \A id \in SourceIds : id[1] # n => sources'[id] = sources[id]
    /\ \A t \in 1 .. MaxVersions : t # n => themes'[t] = themes[t]
    /\ themes'[n] = IF row = n THEN [content |-> theme, context |-> texts, report |-> NoReport]
                   ELSE NoTheme
    /\ \A i \in 1 .. m : ids[i][1] <= n /\ sources'[ids[i]].content = texts[i]
    /\ m \in 0 .. MaxSources /\ ids \in [1 .. m -> SourceIds]
    /\ texts \in [1 .. m -> Contents] /\ texts \in ContextTexts
    /\ row \in 0 .. MaxVersions /\ (row # 0 => theme # None) /\ theme \in Themes \cup {None}
    /\ row # 0 => themes'[row].content = theme /\ themes'[row].context = texts

LEMMA SaveWrites ==
    ASSUME TypeOKVersions, Stored, NEW base, NEW n, NEW m, NEW changed, NEW ids, NEW texts,
           NEW theme, NEW row, Saves(base, n, m, changed, ids, texts, theme, row)
    PROVE  Saved(n, m, ids, texts, theme, row)
<1>1. /\ base = current /\ n = Len(versions) + 1 /\ n <= MaxVersions
      /\ m \in 0 .. MaxSources /\ theme \in Themes \cup {None} /\ changed \subseteq 1 .. m
      /\ ids \in [1 .. m -> SourceIds] /\ texts \in [1 .. m -> Contents]
      /\ row = ThemeRevisionFor(theme, texts, n)
  BY DEF Saves
<1>2. /\ DOMAIN versions = 1 .. Len(versions) /\ Len(versions) \in 1 .. MaxVersions
      /\ base \in DOMAIN versions /\ n \in 1 .. MaxVersions
  BY <1>1, TaskFacts, ConstantsAssumption
<1>3. themes[n] = NoTheme
  BY <1>1, <1>2 DEF Stored
<1>4. PICK new : new = [sources |-> ids, theme |-> row]
  OBVIOUS
<1>5. /\ DOMAIN versions' = 1 .. n /\ Len(versions') = n /\ versions'[n] = new
      /\ \A v \in DOMAIN versions : v < n /\ versions'[v] = versions[v]
  <2>1. PICK S : versions \in Seq(S)
    BY DEF TypeOKVersions
  <2>2. PICK s : s = Append(versions, new)
    OBVIOUS
  <2>3. versions \in Seq(S \cup {new})
    BY <1>2, <2>1
  <2>4. s \in Seq(S \cup {new}) /\ Len(s) = Len(versions) + 1 /\ DOMAIN s = 1 .. Len(versions) + 1
          /\ (\A q \in 1 .. Len(versions) : s[q] = versions[q]) /\ s[Len(versions) + 1] = new
    BY <2>2, <2>3, AppendProperties
  <2>5. versions' = s
    BY <1>4, <2>2 DEF Saves
  <2> QED
    BY <1>1, <1>2, <2>4, <2>5
<1>6. versions'[n].sources = ids /\ versions'[n].theme = row
  BY <1>4, <1>5
<1>7. \A id \in SourceIds :
          sources'[id] = IF id[1] = n /\ id[2] \in changed
                         THEN [content |-> texts[id[2]], state |-> "none"] ELSE sources[id]
  BY DEF Saves
<1>8. ASSUME NEW i \in 1 .. m
      PROVE  ids[i][1] <= n /\ sources'[ids[i]].content = texts[i]
  <2>1. ids[i] \in SourceIds
    BY <1>1
  <2>2. CASE i \in changed
    <3>1. ids[i] = <<n, i>>
      BY <2>2 DEF Saves
    <3>2. ids[i][1] = n /\ ids[i][2] = i
      BY <3>1
    <3>3. sources'[ids[i]] = [content |-> texts[i], state |-> "none"]
      BY <1>7, <2>1, <2>2, <3>2
    <3> QED
      BY <1>2, <3>2, <3>3
  <2>3. CASE i \notin changed
    <3>1. PICK j \in DOMAIN versions[base].sources : /\ ids[i] = versions[base].sources[j]
                                                     /\ texts[i] = sources[ids[i]].content
      BY <2>3 DEF Saves
    <3>2. ids[i][1] <= Len(versions)
      BY <1>2, <3>1 DEF Stored
    <3>3. ids[i][1] \in 1 .. MaxVersions
      BY <2>1 DEF SourceIds
    <3>4. ids[i][1] # n /\ ids[i][1] <= n
      BY <1>1, <1>2, <3>2, <3>3, ConstantsAssumption
    <3> QED
      BY <1>7, <2>1, <3>1, <3>4
  <2> QED
    BY <2>2, <2>3
<1>9. /\ row \in 0 .. MaxVersions /\ (row # 0 => theme # None)
      /\ row # 0 /\ row # n => themes[row].content = theme /\ themes[row].context = texts
  BY <1>1, <1>2, <1>3, RowOf
<1>10. /\ \A t \in 1 .. MaxVersions : t # n => themes'[t] = themes[t]
       /\ themes'[n] = IF row = n THEN [content |-> theme, context |-> texts, report |-> NoReport]
                      ELSE NoTheme
  <2>1. DOMAIN themes = 1 .. MaxVersions
    BY DEF TypeOKVersions
  <2>2. CASE row = n
    <3>1. themes' = [themes EXCEPT ![n] =
                       [content |-> theme, context |-> texts, report |-> NoReport]]
      BY <2>2 DEF Saves
    <3> QED
      BY <1>2, <2>1, <2>2, <3>1
  <2>3. CASE row # n
    <3>1. themes' = themes
      BY <2>3 DEF Saves
    <3> QED
      BY <1>3, <2>3, <3>1
  <2> QED
    BY <2>2, <2>3
<1>11. row # 0 => themes'[row].content = theme /\ themes'[row].context = texts
  <2>1. CASE row = n
    BY <1>10, <2>1
  <2>2. CASE row # 0 /\ row # n
    <3>1. row \in 1 .. MaxVersions
      BY <1>9, <2>2, ConstantsAssumption
    <3> QED
      BY <1>9, <1>10, <2>2, <3>1
  <2> QED
    BY <2>1, <2>2
<1>12. texts \in ContextTexts
  BY <1>1, Bounded, ConstantsAssumption DEF ContextTexts
<1>13. \A id \in SourceIds : id[1] # n => sources'[id] = sources[id]
  BY <1>7
<1> QED
  BY <1>1, <1>2, <1>3, <1>5, <1>6, <1>8, <1>9, <1>10, <1>11, <1>12, <1>13 DEF Saved

LEMMA SaveStores ==
    ASSUME TypeOKVersions, Stored, NEW base, NEW n, NEW m, NEW changed, NEW ids, NEW texts,
           NEW theme, NEW row, Saves(base, n, m, changed, ids, texts, theme, row)
    PROVE  /\ \A v \in DOMAIN versions : Complete(v) => Complete(v)'
           /\ Stored'
<1>0. Saved(n, m, ids, texts, theme, row)
  BY SaveWrites
<1>1. /\ n \in 1 .. MaxVersions /\ n = Len(versions) + 1
      /\ themes[n] = NoTheme
      /\ DOMAIN versions' = 1 .. n /\ Len(versions') = n
      /\ \A v \in DOMAIN versions : v < n /\ versions'[v] = versions[v]
      /\ versions'[n].sources = ids /\ versions'[n].theme = row
      /\ \A id \in SourceIds : id[1] # n => sources'[id] = sources[id]
      /\ \A t \in 1 .. MaxVersions : t # n => themes'[t] = themes[t]
      /\ themes'[n] = IF row = n THEN [content |-> theme, context |-> texts, report |-> NoReport]
                     ELSE NoTheme
      /\ m \in 0 .. MaxSources /\ ids \in [1 .. m -> SourceIds]
      /\ texts \in [1 .. m -> Contents]
      /\ row \in 0 .. MaxVersions /\ (row # 0 => theme # None)
  BY <1>0 DEF Saved
<1>2. /\ \A i \in 1 .. m : ids[i][1] <= n /\ sources'[ids[i]].content = texts[i]
      /\ row # 0 => themes'[row].content = theme /\ themes'[row].context = texts
  BY <1>0 DEF Saved
<1>3. /\ DOMAIN versions = 1 .. Len(versions) /\ Len(versions) \in 1 .. MaxVersions
      /\ MaxVersions \in Nat
      /\ \A v \in DOMAIN versions : versions[v].theme \in 0 .. MaxVersions
  BY TaskFacts, ConstantsAssumption
<1>4. ASSUME NEW v \in DOMAIN versions, NEW i \in DOMAIN versions[v].sources
      PROVE  /\ versions[v].sources[i] \in SourceIds
             /\ versions[v].sources[i][1] \in 1 .. Len(versions)
             /\ sources'[versions[v].sources[i]] = sources[versions[v].sources[i]]
             /\ sources[versions[v].sources[i]].content # None
  <2>1. versions[v].sources[i] \in SourceIds
    BY SourcesOf
  <2>2. /\ versions[v].sources[i][1] <= Len(versions)
        /\ sources[versions[v].sources[i]].content # None
    BY DEF Stored
  <2>3. versions[v].sources[i][1] \in 1 .. MaxVersions
    BY <2>1 DEF SourceIds
  <2>4. PICK id : id = versions[v].sources[i]
    OBVIOUS
  <2>5. id[1] \in 1 .. Len(versions) /\ id[1] # n
    BY <1>1, <1>3, <2>2, <2>3, <2>4
  <2>6. sources'[id] = sources[id]
    BY <1>1, <2>1, <2>4, <2>5
  <2> QED
    BY <2>1, <2>2, <2>4, <2>5, <2>6
<1>5. \A t \in 1 .. MaxVersions : themes[t].content # None => t # n
  BY <1>1 DEF NoTheme
<1>6. \A v \in DOMAIN versions : Complete(v) => Complete(v)'
  <2>1. \A t \in 1 .. MaxVersions : themes[t].report # NoReport => themes'[t].report # NoReport
    BY <1>1 DEF NoTheme, NoReport
  <2>2. ASSUME NEW v \in DOMAIN versions, Complete(v) PROVE Complete(v)'
    <3>1. versions'[v] = versions[v]
      BY <1>1
    <3>2. \A i \in DOMAIN versions[v].sources :
              sources[versions[v].sources[i]].state = "reported"
                 => sources'[versions[v].sources[i]].state = "reported"
      BY <1>4
    <3> QED
      BY <2>1, <2>2, <3>1, <3>2, CompleteKept
  <2> QED
    BY <2>2
<1>7. \A v \in DOMAIN versions : ContextOf(v)' = ContextOf(v)
  <2>1. ASSUME NEW v \in DOMAIN versions PROVE ContextOf(v)' = ContextOf(v)
    <3>1. versions'[v] = versions[v]
      BY <1>1
    <3>2. \A i \in DOMAIN versions[v].sources :
              sources'[versions[v].sources[i]].content = sources[versions[v].sources[i]].content
      BY <1>4
    <3> QED
      BY <3>1, <3>2, ContextKept
  <2> QED
    BY <2>1
<1>8. ContextOf(n)' = texts
  <2>1. DOMAIN ids = 1 .. m /\ \A i \in 1 .. m : sources'[ids[i]].content = texts[i]
    BY <1>1, <1>2
  <2>2. ContextOf(n)' = [i \in DOMAIN ids |-> sources'[ids[i]].content]
    BY <1>1 DEF ContextOf, TextsOf
  <2>3. texts = [i \in 1 .. m |-> texts[i]]
    BY <1>1
  <2> QED
    BY <2>1, <2>2, <2>3
<1>9. ASSUME NEW v \in DOMAIN versions' PROVE v \in DOMAIN versions \/ v = n
  BY <1>1, <1>3
<1>10. (\A v \in DOMAIN versions : \A i \in DOMAIN versions[v].sources :
          /\ versions[v].sources[i][1] <= Len(versions)
          /\ sources[versions[v].sources[i]].content # None)'
  <2>1. ASSUME NEW v \in DOMAIN versions', NEW i \in DOMAIN versions'[v].sources
        PROVE  /\ versions'[v].sources[i][1] <= n
               /\ sources'[versions'[v].sources[i]].content # None
    <3>1. CASE v \in DOMAIN versions
      <4>1. versions'[v] = versions[v] /\ i \in DOMAIN versions[v].sources
        BY <1>1, <2>1, <3>1
      <4>2. /\ versions[v].sources[i][1] \in 1 .. Len(versions)
            /\ sources'[versions[v].sources[i]] = sources[versions[v].sources[i]]
            /\ sources[versions[v].sources[i]].content # None
        BY <1>4, <3>1, <4>1
      <4> QED
        BY <1>1, <1>3, <4>1, <4>2
    <3>2. CASE v = n
      <4>1. versions'[v].sources = ids /\ i \in 1 .. m
        BY <1>1, <2>1, <3>2
      <4>2. texts[i] \in Contents
        BY <1>1, <4>1
      <4> QED
        BY <1>2, <4>1, <4>2, ConstantsAssumption
    <3> QED
      BY <1>9, <2>1, <3>1, <3>2
  <2> QED
    BY <1>1, <2>1
<1>11. (\A t \in 1 .. MaxVersions : t > Len(versions) => themes[t] = NoTheme)'
  <2>1. ASSUME NEW t \in 1 .. MaxVersions, t > n PROVE themes'[t] = NoTheme
    <3>1. t > Len(versions) /\ t # n
      BY <1>1, <1>3, <2>1
    <3>2. themes[t] = NoTheme
      BY <2>1, <3>1 DEF Stored
    <3> QED
      BY <1>1, <2>1, <3>1, <3>2
  <2> QED
    BY <1>1, <2>1 DEF NoTheme, NoReport
<1>12. (\A v \in DOMAIN versions : versions[v].theme # 0 =>
          /\ themes[versions[v].theme].content # None
          /\ themes[versions[v].theme].context = ContextOf(v))'
  <2>1. ASSUME NEW v \in DOMAIN versions', versions'[v].theme # 0
        PROVE  /\ themes'[versions'[v].theme].content # None
               /\ themes'[versions'[v].theme].context = ContextOf(v)'
    <3>1. CASE v \in DOMAIN versions
      <4>1. versions'[v] = versions[v]
        BY <1>1, <3>1
      <4>2. PICK t : t = versions[v].theme
        OBVIOUS
      <4>3. t \in 1 .. MaxVersions
        BY <1>3, <2>1, <3>1, <4>1, <4>2
      <4>4. themes[t].content # None /\ themes[t].context = ContextOf(v)
        BY <2>1, <3>1, <4>1, <4>2 DEF Stored
      <4>5. themes'[t] = themes[t]
        BY <1>1, <1>5, <4>3, <4>4
      <4>6. versions'[v].theme = t /\ ContextOf(v)' = ContextOf(v)
        BY <1>7, <3>1, <4>1, <4>2
      <4> QED
        BY <4>4, <4>5, <4>6
    <3>2. CASE v = n
      <4>1. versions'[v].theme = row /\ row # 0
        BY <1>1, <2>1, <3>2
      <4> QED
        BY <1>1, <1>2, <1>8, <3>2, <4>1
    <3> QED
      BY <1>9, <2>1, <3>1, <3>2
  <2> QED
    BY <2>1
<1>13. (\A t \in 1 .. MaxVersions :
          /\ themes[t].report \in {NoReport, themes[t].context}
          /\ themes[t].content = None => themes[t] = NoTheme)'
  <2>1. ASSUME NEW t \in 1 .. MaxVersions
        PROVE  /\ themes'[t].report \in {NoReport, themes'[t].context}
               /\ themes'[t].content = None => themes'[t] = NoTheme
    <3>1. CASE t # n
      <4>1. /\ themes[t].report \in {NoReport, themes[t].context}
            /\ themes[t].content = None => themes[t] = NoTheme
        BY DEF Stored
      <4> QED
        BY <1>1, <3>1, <4>1
    <3>2. CASE t = n /\ row = n
      <4>1. themes'[t] = [content |-> theme, context |-> texts, report |-> NoReport]
              /\ theme # None
        BY <1>1, <3>2
      <4> QED
        BY <4>1
    <3>3. CASE t = n /\ row # n
      <4>1. themes'[t] = NoTheme
        BY <1>1, <3>3
      <4> QED
        BY <4>1 DEF NoTheme, NoReport
    <3> QED
      BY <3>1, <3>2, <3>3
  <2> QED
    BY <2>1 DEF NoTheme, NoReport
<1>14. Stored'
  BY <1>10, <1>11, <1>12, <1>13 DEF Stored
<1> QED
  BY <1>6, <1>14

LEMMA SaveKeeps ==
    ASSUME TypeOKVersions, Stored, Table(runs), NEW e \in Edits, SaveCommits(e)
    PROVE  TypeOKVersions' /\ Stored' /\ (Table(runs))'
<1>1. PICK base, n, m, changed, ids, texts, theme, row :
          Saves(base, n, m, changed, ids, texts, theme, row)
  BY SaveIs
<1>1a. Saved(n, m, ids, texts, theme, row)
  BY <1>1, SaveWrites
<1>2. /\ n \in 1 .. MaxVersions /\ n = Len(versions) + 1
      /\ themes[n] = NoTheme
      /\ DOMAIN versions' = 1 .. n /\ Len(versions') = n
      /\ \A v \in DOMAIN versions : v < n /\ versions'[v] = versions[v]
      /\ \A t \in 1 .. MaxVersions : t # n => themes'[t] = themes[t]
      /\ themes'[n] = IF row = n THEN [content |-> theme, context |-> texts, report |-> NoReport]
                     ELSE NoTheme
      /\ m \in 0 .. MaxSources /\ ids \in [1 .. m -> SourceIds]
      /\ texts \in [1 .. m -> Contents] /\ texts \in ContextTexts
      /\ row \in 0 .. MaxVersions /\ theme \in Themes \cup {None}
  BY <1>1a DEF Saved
<1>3. Stored' /\ \A v \in DOMAIN versions : Complete(v) => Complete(v)'
  BY <1>1, SaveStores
<1>4. /\ ~ HasActiveRuns(current) /\ runs' = runs /\ deleted' = deleted /\ current' = n
      /\ edits' = [edits EXCEPT ![e].status = "saved"]
  BY <1>1 DEF SaveCommits, Saves
<1>5. (Table(runs))'
  <2>1. PICK s : s = runs
    OBVIOUS
  <2>2. \A r \in DOMAIN s : s[r].kind = "article" /\ s[r].target = current =>
                               s[r].status \notin Active
    BY <1>4, <2>1, NoneActive
  <2>3. \A v \in DOMAIN versions : v \in DOMAIN versions'
    <3>1. DOMAIN versions = 1 .. Len(versions) /\ Len(versions) \in Nat
      BY TaskFacts
    <3> QED
      BY <1>2, <3>1
  <2>4. \A t \in 1 .. MaxVersions : themes[t].content # None =>
              themes'[t].content # None /\ themes'[t].context = themes[t].context
    BY <1>2 DEF NoTheme
  <2>5. Table(s)'
    BY <1>3, <1>4, <2>1, <2>2, <2>3, <2>4, TableKept
  <2> QED
    BY <1>4, <2>1, <2>5
<1>6. versions' \in Seq([sources : BoundedSeq(SourceIds, MaxSources), theme : 0 .. MaxVersions])
  <2>1. PICK S : S = [sources : BoundedSeq(SourceIds, MaxSources), theme : 0 .. MaxVersions]
    OBVIOUS
  <2>2. versions \in Seq(S)
    BY <2>1 DEF TypeOKVersions
  <2>3. ids \in BoundedSeq(SourceIds, MaxSources)
    BY <1>2, Bounded, ConstantsAssumption
  <2>4. [sources |-> ids, theme |-> row] \in S
    BY <1>2, <2>1, <2>3
  <2>5. versions' \in Seq(S)
    BY <1>1, <2>2, <2>4, AppendProperties DEF Saves
  <2> QED
    BY <2>1, <2>5
<1>7. themes' \in [1 .. MaxVersions -> [content : Themes \cup {None},
                                        context : ContextTexts, report : ContextTexts]]
  <2>1. /\ DOMAIN themes' = 1 .. MaxVersions /\ themes' = [t \in 1 .. MaxVersions |-> themes'[t]]
    BY <1>1 DEF Saves, TypeOKVersions
  <2>2. \A t \in 1 .. MaxVersions :
          themes[t] \in [content : Themes \cup {None}, context : ContextTexts,
                         report : ContextTexts]
    BY DEF TypeOKVersions
  <2>3. [content |-> theme, context |-> texts, report |-> NoReport]
           \in [content : Themes \cup {None}, context : ContextTexts, report : ContextTexts]
    BY <1>2, NoTexts
  <2>4. \A t \in 1 .. MaxVersions :
          themes'[t] \in [content : Themes \cup {None}, context : ContextTexts,
                         report : ContextTexts]
    BY <1>2, <2>2, <2>3
  <2> QED
    BY <2>1, <2>4
<1>8. sources' \in [SourceIds -> [content : Contents \cup {None},
                                  state : {"absent", "none", "active", "ended", "reported"}]]
  <2>1. sources' = [id \in SourceIds |->
          IF id[1] = n /\ id[2] \in changed
          THEN [content |-> texts[id[2]], state |-> "none"] ELSE sources[id]]
    BY <1>1 DEF Saves
  <2>2. changed \subseteq 1 .. m
    BY <1>1 DEF Saves
  <2>3. sources \in [SourceIds -> [content : Contents \cup {None},
                                   state : {"absent", "none", "active", "ended", "reported"}]]
    BY DEF TypeOKVersions
  <2> QED
    BY <1>2, <2>1, <2>2, <2>3
<1>9. edits' \in [Edits -> [status : {"absent", "active", "saved", "discarded"},
                            base : 0 .. MaxVersions]]
  <2>1. edits \in [Edits -> [status : {"absent", "active", "saved", "discarded"},
                            base : 0 .. MaxVersions]]
    BY DEF TypeOKVersions
  <2> QED
    BY <1>4, <2>1
<1>10. Len(versions') <= MaxVersions /\ current' \in DOMAIN versions'
  BY <1>2, <1>4, ConstantsAssumption
<1>11. TypeOKVersions'
  BY <1>4, <1>6, <1>7, <1>8, <1>9, <1>10 DEF TypeOKVersions
<1> QED
  BY <1>3, <1>5, <1>11

-----------------------------------------------------------------------------
(* Revisions. *)

\* There are no more Revisions of an article than keys, and the newest one counts them.
LEMMA Counted ==
    ASSUME TypeOK, RevisionsLinear, NEW v \in 1 .. MaxVersions
    PROVE  /\ IsFiniteSet(revisions[v]) /\ Cardinality(revisions[v]) \in 0 .. MaxRevisions
           /\ CurrentNumber(v) = Cardinality(revisions[v])
<1>1. PICK S : S = revisions[v]
  OBVIOUS
<1>2. S \subseteq Revisions /\ v \in DOMAIN revisions
  BY <1>1 DEF TypeOK
<1>3. \A one, other \in S : one.key = other.key => one = other
  BY <1>1, <1>2 DEF RevisionsLinear
<1>4. PICK f : f = [one \in S |-> one.key]
  OBVIOUS
<1>5. f \in [S -> Keys] /\ \A one, other \in S : f[one] = f[other] => one = other
  BY <1>2, <1>3, <1>4 DEF Revisions
<1>6. f \in Injection(S, Keys)
  BY <1>5 DEF Injection, IsInjective
<1>7. IsFiniteSet(S) /\ Cardinality(S) <= Cardinality(Keys)
  BY <1>6, FS_Injection, WritersAssumption
<1>8. PICK c : c = Cardinality(S)
  OBVIOUS
<1>9. c \in Nat /\ Cardinality(Keys) \in Nat /\ c <= Cardinality(Keys)
  BY <1>7, <1>8, FS_CardinalityType, WritersAssumption
<1>10. {one.number : one \in S} = 1 .. c
  BY <1>1, <1>2, <1>8 DEF RevisionsLinear
<1>11. PICK T : T = {0} \cup {one.number : one \in S}
  OBVIOUS
<1>12. T = 0 .. c
  BY <1>9, <1>10, <1>11
<1>13. Max(T) = c
  BY <1>9, <1>12 DEF Max
<1>14. CurrentNumber(v) = c
  BY <1>1, <1>11, <1>13 DEF CurrentNumber
<1> QED
  BY <1>1, <1>7, <1>8, <1>9, <1>14 DEF MaxRevisions

LEMMA ReadsKeep ==
    ASSUME TypeOK, Lines, NEW w \in Writers, NEW key \in Keys, NEW restored \in BOOLEAN,
           Reads(w, key, restored)
    PROVE  /\ writers' \in [Writers -> [version : 0 .. MaxVersions, key : Keys \cup {None},
                                       base : 0 .. MaxRevisions, restored : BOOLEAN]]
           /\ Lines'
<1>1. current \in 1 .. MaxVersions
  BY TaskFacts DEF TypeOK
<1>2. /\ CurrentNumber(current) = Cardinality(revisions[current])
      /\ CurrentNumber(current) \in 0 .. MaxRevisions
  BY <1>1, Counted DEF Lines
<1>3. PICK c, x : /\ c = CurrentNumber(current)
                  /\ x = [version |-> current, key |-> key, base |-> c, restored |-> restored]
  OBVIOUS
<1>4. writers' = [writers EXCEPT ![w] = x] /\ revisions' = revisions
  BY <1>3 DEF Reads
<1>5. writers \in [Writers -> [version : 0 .. MaxVersions, key : Keys \cup {None},
                              base : 0 .. MaxRevisions, restored : BOOLEAN]]
  BY DEF TypeOK
<1>6. x \in [version : 0 .. MaxVersions, key : Keys \cup {None},
             base : 0 .. MaxRevisions, restored : BOOLEAN]
  BY <1>1, <1>2, <1>3
<1>7. writers'[w] = x /\ \A u \in Writers : u # w => writers'[u] = writers[u]
  BY <1>4, <1>5
<1>8. MaxRevisions \in Nat
  BY FS_CardinalityType, WritersAssumption DEF MaxRevisions
<1>9. ASSUME NEW u \in Writers, writers'[u] # NotWriting
      PROVE  /\ writers'[u].version # 0 /\ writers'[u].key # None
             /\ writers'[u].base <= Cardinality(revisions[writers'[u].version])
  <2>1. CASE u = w
    BY <1>1, <1>2, <1>3, <1>7, <1>8, <2>1, WritersAssumption
  <2>2. CASE u # w
    <3>1. writers'[u] = writers[u] /\ writers[u] # NotWriting
      BY <1>7, <1>9, <2>2
    <3> QED
      BY <3>1 DEF Lines
  <2> QED
    BY <2>1, <2>2
<1>10. RevisionsLinear'
  BY <1>4 DEF Lines, RevisionsLinear
<1>11. Lines'
  BY <1>4, <1>9, <1>10 DEF Lines, NotWriting
<1> QED
  BY <1>4, <1>5, <1>6, <1>11

\* A Revision that nothing refuses is the one after the newest.
LEMMA CommitKeeps ==
    ASSUME TypeOK, Lines, NEW w \in Writers, CommitRevision(w)
    PROVE  /\ revisions' \in [1 .. MaxVersions -> SUBSET Revisions]
           /\ writers' \in [Writers -> [version : 0 .. MaxVersions, key : Keys \cup {None},
                                       base : 0 .. MaxRevisions, restored : BOOLEAN]]
           /\ Lines'
<1>1. /\ revisions \in [1 .. MaxVersions -> SUBSET Revisions]
      /\ writers \in [Writers -> [version : 0 .. MaxVersions, key : Keys \cup {None},
                                 base : 0 .. MaxRevisions, restored : BOOLEAN]]
      /\ MaxVersions \in Nat
  BY ConstantsAssumption DEF TypeOK
<1>2. MaxRevisions \in Nat
  BY FS_CardinalityType, WritersAssumption DEF MaxRevisions
<1>3. PICK v, x, c : /\ v = writers[w].version /\ x = NewRevision(writers[w])
                     /\ c = Cardinality(revisions[v])
  OBVIOUS
<1>4. /\ v \in 1 .. MaxVersions /\ writers[w].key \in Keys
      /\ writers[w].base \in 0 .. MaxRevisions /\ writers[w].base <= c
  BY <1>1, <1>3 DEF CommitRevision, Lines
<1>5. IsFiniteSet(revisions[v]) /\ c \in 0 .. MaxRevisions
  BY <1>3, <1>4, Counted DEF Lines
<1>6. /\ x.key = writers[w].key /\ x.number = writers[w].base + 1 /\ x \in Revisions
  BY <1>1, <1>2, <1>3, <1>4 DEF NewRevision, Revisions
<1>7. writers' = [writers EXCEPT ![w] = NotWriting]
  BY DEF CommitRevision
<1>8. /\ NotWriting \in [version : 0 .. MaxVersions, key : Keys \cup {None},
                         base : 0 .. MaxRevisions, restored : BOOLEAN]
  BY <1>1, <1>2 DEF NotWriting
<1>9. writers' \in [Writers -> [version : 0 .. MaxVersions, key : Keys \cup {None},
                               base : 0 .. MaxRevisions, restored : BOOLEAN]]
  BY <1>1, <1>7, <1>8
<1>10. \A u \in Writers : writers'[u] # NotWriting => writers'[u] = writers[u]
  BY <1>1, <1>7
<1>11. CASE Conflicts(v, x)
  <2>1. revisions' = revisions
    BY <1>3, <1>11 DEF CommitRevision
  <2>2. RevisionsLinear'
    BY <2>1 DEF Lines, RevisionsLinear
  <2>3. ASSUME NEW u \in Writers, writers'[u] # NotWriting
        PROVE  /\ writers'[u].version # 0 /\ writers'[u].key # None
               /\ writers'[u].base <= Cardinality(revisions[writers'[u].version])
    BY <1>10, <2>3 DEF Lines
  <2>4. Lines'
    BY <2>1, <2>2, <2>3 DEF Lines, NotWriting
  <2> QED
    BY <1>1, <1>9, <2>1, <2>4
<1>12. CASE ~ Conflicts(v, x)
  <2>1. PICK S, T : S = revisions[v] /\ T = S \cup {x}
    OBVIOUS
  <2>2. /\ revisions' = [revisions EXCEPT ![v] = T]
        /\ revisions'[v] = T /\ \A u \in 1 .. MaxVersions : u # v => revisions'[u] = revisions[u]
        /\ DOMAIN revisions' = 1 .. MaxVersions
    BY <1>1, <1>3, <1>4, <1>12, <2>1 DEF CommitRevision
  <2>3. \A u \in 1 .. MaxVersions : \A one \in revisions[u] : one.key # x.key
    BY <1>1, <1>12 DEF Conflicts, KeyUsed
  <2>4. \A one \in S : one.number # x.number
    BY <1>12, <2>1 DEF Conflicts
  <2>5. {one.number : one \in S} = 1 .. c
    BY <1>1, <1>3, <1>4, <2>1 DEF Lines, RevisionsLinear
  <2>6. x.number \notin 1 .. c
    BY <2>4, <2>5
  <2>7. x.number = c + 1
    BY <1>2, <1>4, <1>5, <1>6, <2>6
  <2>8. Cardinality(T) = c + 1
    <3>1. x \notin S
      BY <1>4, <2>1, <2>3
    <3> QED
      BY <1>3, <1>5, <2>1, <3>1, FS_AddElement
  <2>9. {one.number : one \in T} = 1 .. Cardinality(T)
    <3>1. {one.number : one \in T} = {one.number : one \in S} \cup {c + 1}
      BY <2>1, <2>7
    <3> QED
      BY <1>5, <2>5, <2>8, <3>1
  <2>10. revisions' \in [1 .. MaxVersions -> SUBSET Revisions]
    <3>1. T \subseteq Revisions
      BY <1>1, <1>4, <1>6, <2>1
    <3> QED
      BY <1>1, <2>2, <3>1
  <2>11. ASSUME NEW u \in 1 .. MaxVersions
         PROVE  {one.number : one \in revisions'[u]} = 1 .. Cardinality(revisions'[u])
    <3>1. CASE u = v
      BY <2>2, <2>9, <3>1
    <3>2. CASE u # v
      <4>1. {one.number : one \in revisions[u]} = 1 .. Cardinality(revisions[u])
        BY <1>1 DEF Lines, RevisionsLinear
      <4> QED
        BY <2>2, <3>2, <4>1
    <3> QED
      BY <3>1, <3>2
  <2>12. ASSUME NEW u1 \in 1 .. MaxVersions, NEW u2 \in 1 .. MaxVersions,
                NEW one \in revisions'[u1], NEW other \in revisions'[u2], one.key = other.key
         PROVE  u1 = u2 /\ one = other
    <3>1. one \in revisions[u1] \/ (u1 = v /\ one = x)
      BY <2>1, <2>2
    <3>2. other \in revisions[u2] \/ (u2 = v /\ other = x)
      BY <2>1, <2>2
    <3>3. CASE one \in revisions[u1] /\ other \in revisions[u2]
      BY <1>1, <2>12, <3>3 DEF Lines, RevisionsLinear
    <3>4. CASE u1 = v /\ one = x
      BY <2>3, <2>12, <3>2, <3>4
    <3>5. CASE u2 = v /\ other = x
      BY <2>3, <2>12, <3>1, <3>5
    <3> QED
      BY <3>1, <3>2, <3>3, <3>4, <3>5
  <2>13. RevisionsLinear'
    BY <2>2, <2>11, <2>12 DEF RevisionsLinear
  <2>14. ASSUME NEW u \in Writers, writers'[u] # NotWriting
         PROVE  /\ writers'[u].version # 0 /\ writers'[u].key # None
                /\ writers'[u].base <= Cardinality(revisions'[writers'[u].version])
    <3>1. writers'[u] = writers[u] /\ writers[u] # NotWriting
      BY <1>10, <2>14
    <3>2. PICK y : y = writers[u]
      OBVIOUS
    <3>3. /\ y.version # 0 /\ y.key # None /\ y.base <= Cardinality(revisions[y.version])
          /\ y.version \in 1 .. MaxVersions /\ y.base \in 0 .. MaxRevisions
      BY <1>1, <3>1, <3>2 DEF Lines
    <3>4. y.base <= Cardinality(revisions'[y.version])
      BY <1>2, <1>3, <1>5, <2>2, <2>8, <3>3
    <3> QED
      BY <3>1, <3>2, <3>3, <3>4
  <2>15. Lines'
    BY <2>13, <2>14 DEF Lines, NotWriting
  <2> QED
    BY <1>9, <2>10, <2>15
<1> QED
  BY <1>11, <1>12

LEMMA RevisionSteps ==
    ASSUME TypeOK, Lines, RevisionStep
    PROVE  /\ UNCHANGED <<taskVars, runs>>
           /\ revisions' \in [1 .. MaxVersions -> SUBSET Revisions]
           /\ writers' \in [Writers -> [version : 0 .. MaxVersions, key : Keys \cup {None},
                                       base : 0 .. MaxRevisions, restored : BOOLEAN]]
           /\ Lines'
<1>1. ASSUME NEW w \in Writers, NEW key \in Keys, NEW restored \in BOOLEAN,
             Reads(w, key, restored)
      PROVE  /\ UNCHANGED <<taskVars, runs>>
             /\ revisions' \in [1 .. MaxVersions -> SUBSET Revisions]
             /\ writers' \in [Writers -> [version : 0 .. MaxVersions, key : Keys \cup {None},
                                         base : 0 .. MaxRevisions, restored : BOOLEAN]]
             /\ Lines'
  <2>1. UNCHANGED <<taskVars, runs, revisions>>
    BY <1>1 DEF Reads
  <2>2. revisions' \in [1 .. MaxVersions -> SUBSET Revisions]
    BY <2>1 DEF TypeOK
  <2> QED
    BY <1>1, <2>1, <2>2, ReadsKeep
<1>2. ASSUME NEW w \in Writers, CommitRevision(w)
      PROVE  UNCHANGED <<taskVars, runs>>
  BY <1>2 DEF CommitRevision
<1>3. CASE \E w \in Writers, key \in Keys : SaveRevision(w, key) \/ RestoreRevision(w, key)
  <2>1. PICK w \in Writers, key \in Keys, restored \in BOOLEAN : Reads(w, key, restored)
    BY <1>3 DEF SaveRevision, RestoreRevision
  <2> QED
    BY <1>1, <2>1
<1>4. CASE \E w \in Writers : CommitRevision(w)
  BY <1>2, <1>4, CommitKeeps
<1> QED
  BY <1>3, <1>4 DEF RevisionStep

-----------------------------------------------------------------------------
(* The invariant. *)

Inv == TypeOK /\ Stored /\ Table(runs) /\ Lines

\* A task as its confirmation leaves it.
LEMMA InitiallyVersions ==
    ASSUME InitVersions
    PROVE  TypeOKVersions /\ Stored /\ Table(runs)
<1> DEFINE Ids(texts) == [i \in DOMAIN texts |-> <<1, i>>]
           Row(theme) == IF theme = None THEN 0 ELSE 1
<1>1. PICK texts \in ContextTexts \ {<<>>}, theme \in Themes \cup {None} :
        /\ sources = [id \in SourceIds |->
             IF id \in ToSet(Ids(texts)) THEN [content |-> texts[id[2]], state |-> "none"]
                                         ELSE NoSource]
        /\ themes = [n \in 1 .. MaxVersions |->
             IF n = Row(theme) THEN [content |-> theme, context |-> texts, report |-> NoReport]
                               ELSE NoTheme]
        /\ versions = <<[sources |-> Ids(texts), theme |-> Row(theme)]>>
        /\ current = 1 /\ deleted = FALSE
        /\ edits = [e \in Edits |-> [status |-> "absent", base |-> 0]]
        /\ runs = <<>>
  BY DEF InitVersions
<1>2. PICK m \in 0 .. MaxSources : texts \in [1 .. m -> Contents]
  BY Bounded, ConstantsAssumption DEF ContextTexts
<1>3. PICK ids, row : ids = Ids(texts) /\ row = Row(theme)
  OBVIOUS
<1> HIDE DEF Ids, Row
<1>4. /\ MaxSources \in Nat \ {0} /\ MaxVersions \in Nat \ {0} /\ MaxRuns \in Nat \ {0}
      /\ None \notin Contents \cup Themes
  BY ConstantsAssumption
<1>5. /\ ids = [i \in 1 .. m |-> <<1, i>>]
      /\ row \in {0, 1} /\ (row = 0 <=> theme = None)
  BY <1>2, <1>3 DEF Ids, Row
<1>6. ids \in [1 .. m -> SourceIds] /\ ToSet(ids) = {<<1, i>> : i \in 1 .. m}
  <2>1. \A i \in 1 .. m : <<1, i>> \in SourceIds
    BY <1>4 DEF SourceIds
  <2> QED
    BY <1>5, <2>1 DEF ToSet
<1>7. sources = [id \in SourceIds |->
             IF id \in ToSet(ids) THEN [content |-> texts[id[2]], state |-> "none"]
                                  ELSE NoSource]
  BY <1>1, <1>3
<1>8. \A i \in 1 .. m : sources[ids[i]] = [content |-> texts[i], state |-> "none"]
  BY <1>5, <1>6, <1>7
<1>9. PICK new : new = [sources |-> ids, theme |-> row]
  OBVIOUS
<1>10. versions = <<new>> /\ DOMAIN versions = {1} /\ Len(versions) = 1 /\ versions[1] = new
  BY <1>1, <1>3, <1>9
<1>11. new.sources = ids /\ new.theme = row /\ ids \in BoundedSeq(SourceIds, MaxSources)
  BY <1>4, <1>6, <1>9, Bounded
<1>12. themes = [n \in 1 .. MaxVersions |->
             IF n = row THEN [content |-> theme, context |-> texts, report |-> NoReport]
                        ELSE NoTheme]
  BY <1>1, <1>3
<1>13. TypeOKVersions
  <2>1. sources \in [SourceIds -> [content : Contents \cup {None},
                                  state : {"absent", "none", "active", "ended", "reported"}]]
    <3>1. ASSUME NEW id \in SourceIds
          PROVE  sources[id] \in [content : Contents \cup {None},
                                  state : {"absent", "none", "active", "ended", "reported"}]
      <4>1. CASE id \in ToSet(ids)
        <5>1. PICK i \in 1 .. m : id = <<1, i>>
          BY <1>6, <4>1
        <5>2. sources[id] = [content |-> texts[i], state |-> "none"]
          BY <1>5, <1>8, <5>1
        <5> QED
          BY <1>2, <5>2
      <4>2. CASE id \notin ToSet(ids)
        BY <1>7, <4>2 DEF NoSource
      <4> QED
        BY <4>1, <4>2
    <3>2. sources = [id \in SourceIds |-> sources[id]]
      BY <1>7
    <3> QED
      BY <3>1, <3>2
  <2>2. themes \in [1 .. MaxVersions -> [content : Themes \cup {None},
                                        context : ContextTexts, report : ContextTexts]]
    BY <1>12, NoTexts DEF NoTheme, NoReport
  <2>3. versions \in Seq([sources : BoundedSeq(SourceIds, MaxSources), theme : 0 .. MaxVersions])
    <3>1. PICK S : S = [sources : BoundedSeq(SourceIds, MaxSources), theme : 0 .. MaxVersions]
      OBVIOUS
    <3>2. new \in S
      BY <1>4, <1>5, <1>9, <1>11, <3>1
    <3> QED
      BY <1>10, <3>1, <3>2
  <2>4. edits \in [Edits -> [status : {"absent", "active", "saved", "discarded"},
                            base : 0 .. MaxVersions]]
    BY <1>1, <1>4
  <2>5. runs \in Seq(Executions) /\ Len(runs) <= MaxRuns
    BY <1>1, <1>4
  <2>6. Len(versions) <= MaxVersions /\ current \in DOMAIN versions /\ deleted \in BOOLEAN
    <3>1. deleted \in BOOLEAN
      BY <1>1, Zenon
    <3>2. current \in DOMAIN versions
      BY <1>1, <1>10, Zenon
    <3>3. Len(versions) <= MaxVersions
      BY <1>4, <1>10
    <3> QED
      BY <3>1, <3>2, <3>3
  <2> QED
    BY <2>1, <2>2, <2>3, <2>4, <2>5, <2>6 DEF TypeOKVersions
<1>14. ContextOf(1) = texts
  <2>1. ContextOf(1) = [i \in DOMAIN ids |-> sources[ids[i]].content]
    BY <1>10, <1>11 DEF ContextOf, TextsOf
  <2>2. DOMAIN ids = 1 .. m /\ texts = [i \in 1 .. m |-> texts[i]]
    BY <1>2, <1>5
  <2>3. \A i \in 1 .. m : sources[ids[i]].content = texts[i]
    <3>1. ASSUME NEW i \in 1 .. m PROVE sources[ids[i]].content = texts[i]
      <4>1. sources[ids[i]] = [content |-> texts[i], state |-> "none"]
        BY <1>8
      <4> QED
        BY <4>1
    <3> QED
      BY <3>1
  <2> QED
    BY <2>1, <2>2, <2>3
<1>15. Stored
  <2>1. \A v \in DOMAIN versions : \A i \in DOMAIN versions[v].sources :
          /\ versions[v].sources[i][1] <= Len(versions)
          /\ sources[versions[v].sources[i]].content # None
    <3>1. \A i \in 1 .. m : ids[i][1] = 1 /\ sources[ids[i]].content # None
      <4>1. ASSUME NEW i \in 1 .. m PROVE ids[i][1] = 1 /\ sources[ids[i]].content # None
        <5>1. ids[i] = <<1, i>> /\ sources[ids[i]] = [content |-> texts[i], state |-> "none"]
          BY <1>5, <1>8
        <5>2. texts[i] # None
          BY <1>2, <1>4
        <5> QED
          BY <5>1, <5>2
      <4> QED
        BY <4>1
    <3>2. DOMAIN ids = 1 .. m
      BY <1>5
    <3> QED
      BY <1>10, <1>11, <3>1, <3>2
  <2>2. \A n \in 1 .. MaxVersions : n > Len(versions) => themes[n] = NoTheme
    BY <1>4, <1>5, <1>10, <1>12
  <2>3. \A v \in DOMAIN versions : versions[v].theme # 0 =>
          /\ themes[versions[v].theme].content # None
          /\ themes[versions[v].theme].context = ContextOf(v)
    <3>1. row # 0 => themes[row] = [content |-> theme, context |-> texts, report |-> NoReport]
                       /\ theme # None
      BY <1>4, <1>5, <1>12
    <3> QED
      BY <1>10, <1>11, <1>14, <3>1
  <2>4. \A t \in 1 .. MaxVersions :
          /\ themes[t].report \in {NoReport, themes[t].context}
          /\ themes[t].content = None => themes[t] = NoTheme
    <3>1. ASSUME NEW t \in 1 .. MaxVersions
          PROVE  /\ themes[t].report \in {NoReport, themes[t].context}
                 /\ themes[t].content = None => themes[t] = NoTheme
      <4>1. CASE t = row
        <5>1. themes[t] = [content |-> theme, context |-> texts, report |-> NoReport]
                /\ theme # None
          BY <1>5, <1>12, <3>1, <4>1
        <5> QED
          BY <5>1
      <4>2. CASE t # row
        BY <1>12, <4>2 DEF NoTheme, NoReport
      <4> QED
        BY <4>1, <4>2
    <3> QED
      BY <3>1
  <2> QED
    BY <2>1, <2>2, <2>3, <2>4 DEF Stored
<1>16. Table(runs)
  <2>1. runs = <<>> /\ DOMAIN runs = {}
    BY <1>1
  <2> QED
    BY <1>4, <2>1 DEF Table
<1> QED
  BY <1>13, <1>15, <1>16

LEMMA Initially == Init => Inv
<1> SUFFICES ASSUME Init PROVE Inv
  OBVIOUS
<1>1. TypeOKVersions /\ Stored /\ Table(runs)
  BY InitiallyVersions DEF Init
<1>2. MaxVersions \in Nat /\ MaxRevisions \in Nat
  BY ConstantsAssumption, FS_CardinalityType, WritersAssumption DEF MaxRevisions
<1>3. revisions \in [1 .. MaxVersions -> SUBSET Revisions]
  BY DEF Init
<1>4. writers \in [Writers -> [version : 0 .. MaxVersions, key : Keys \cup {None},
                              base : 0 .. MaxRevisions, restored : BOOLEAN]]
  BY <1>2 DEF Init, NotWriting
<1>5. RevisionsLinear
  <2>1. \A v \in DOMAIN revisions :
          {revision.number : revision \in revisions[v]} = 1 .. Cardinality(revisions[v])
    <3>1. \A v \in DOMAIN revisions : revisions[v] = {}
      BY DEF Init
    <3> QED
      BY <3>1, FS_EmptySet
  <2>2. \A v, u \in DOMAIN revisions : \A one \in revisions[v], other \in revisions[u] :
         one.key = other.key => v = u /\ one = other
    BY DEF Init
  <2> QED
    BY <2>1, <2>2 DEF RevisionsLinear
<1>6. Lines
  BY <1>5 DEF Init, Lines
<1> QED
  BY <1>1, <1>3, <1>4, <1>6 DEF Inv, TypeOK

\* A step of the task and its runs leaves the Revisions as they are.
LEMMA Beside ==
    ASSUME Inv, UNCHANGED articleVars, TypeOKVersions', Stored', (Table(runs))'
    PROVE  Inv'
<1>1. TypeOK'
  BY DEF Inv, TypeOK, articleVars
<1>2. RevisionsLinear'
  BY DEF Inv, Lines, RevisionsLinear, articleVars
<1>3. Lines'
  BY <1>2 DEF Inv, Lines, articleVars, NotWriting
<1> QED
  BY <1>1, <1>3 DEF Inv

LEMMA Inductive == Inv /\ [Next]_vars => Inv'
<1> SUFFICES ASSUME Inv, [Next]_vars PROVE Inv'
  OBVIOUS
<1>1. TypeOK /\ TypeOKVersions /\ Stored /\ Table(runs) /\ Lines
  BY DEF Inv, TypeOK
<1>2. ASSUME UNCHANGED articleVars, UNCHANGED taskVars, Table(runs') PROVE Inv'
  BY <1>1, <1>2, RunsAlone, Beside
<1>3. CASE EditStep /\ UNCHANGED articleVars
  <2>1. CASE \E e \in Edits : SaveCommits(e)
    BY <1>1, <1>3, <2>1, SaveKeeps, Beside
  <2>2. CASE \/ \E e \in Edits : CreateEdit(e) \/ Discard(e)
            \/ \E v \in DOMAIN versions : Restore(v)
    BY <1>1, <1>3, <2>2, EditSteps, Beside
  <2> QED
    BY <1>3, <2>1, <2>2 DEF EditStep
<1>4. CASE AnalysisStep /\ UNCHANGED articleVars
  <2>1. CASE \E id \in SourceIds : QueueSource(id) \/ SourceRunEnds(id) \/ RetrySource(id)
    BY <1>1, <1>4, <2>1, SourceSteps, Beside
  <2>2. CASE \E t \in DOMAIN versions : QueueTheme(t)
    BY <1>1, <1>2, <1>4, <2>2, QueueThemeTable DEF QueueTheme
  <2>3. CASE RetryTheme
    BY <1>1, <1>2, <1>4, <2>3, RetryThemeTable DEF RetryTheme
  <2> QED
    BY <1>4, <2>1, <2>2, <2>3 DEF AnalysisStep
<1>5. CASE RunStep /\ UNCHANGED articleVars
  <2>1. CASE Delete
    BY <1>1, <1>5, <2>1, DeleteKeeps, Beside
  <2>2. ASSUME NEW r \in DOMAIN runs, Sweep(r) PROVE Inv'
    BY <1>1, <1>2, <1>5, <2>2, SweepTable DEF Sweep
  <2>3. ASSUME NEW r \in DOMAIN runs, Cancel(r) PROVE Inv'
    BY <1>1, <1>2, <1>5, <2>3, CancelTable DEF Cancel
  <2>4. ASSUME NEW r \in DOMAIN runs, FailReads(r) PROVE Inv'
    BY <1>1, <1>2, <1>5, <2>4, FailReadsTable DEF FailReads
  <2>5. ASSUME NEW r \in DOMAIN runs, FailCommits(r) PROVE Inv'
    BY <1>1, <1>2, <1>5, <2>5, FailCommitsTable DEF FailCommits
  <2>6. ASSUME NEW r \in DOMAIN runs, ClaimTheme(r) PROVE Inv'
    BY <1>1, <1>2, <1>5, <2>6, ClaimThemeTable DEF ClaimTheme
  <2>7. ASSUME NEW r \in DOMAIN runs, SucceedTheme(r) PROVE Inv'
    BY <1>1, <1>5, <2>7, SucceedThemeKeeps, Beside
  <2>8. ASSUME NEW r \in DOMAIN runs, ClaimReads(r) PROVE Inv'
    BY <1>1, <1>2, <1>5, <2>8, ClaimReadsTable DEF ClaimReads
  <2>9. ASSUME NEW r \in DOMAIN runs, ClaimCommits(r) PROVE Inv'
    BY <1>1, <1>2, <1>5, <2>9, ClaimCommitsTable DEF ClaimCommits
  <2> QED
    BY <1>5, <2>1, <2>2, <2>3, <2>4, <2>5, <2>6, <2>7, <2>8, <2>9 DEF RunStep
<1>6. CASE ArticleStep
  <2>1. CASE Generate
    BY <1>1, <1>2, <2>1, GenerateTable DEF Generate
  <2>2. ASSUME NEW r \in DOMAIN runs, ClaimArticle(r) PROVE Inv'
    BY <1>1, <1>2, <2>2, ClaimArticleTable DEF ClaimArticle
  <2>3. ASSUME NEW r \in DOMAIN runs, SucceedArticle(r) PROVE Inv'
    BY <1>1, <1>2, <2>3, SucceedArticleTable DEF SucceedArticle
  <2> QED
    BY <1>6, <2>1, <2>2, <2>3 DEF ArticleStep
<1>7. CASE RevisionStep
  <2>1. /\ UNCHANGED <<taskVars, runs>>
        /\ revisions' \in [1 .. MaxVersions -> SUBSET Revisions]
        /\ writers' \in [Writers -> [version : 0 .. MaxVersions, key : Keys \cup {None},
                                    base : 0 .. MaxRevisions, restored : BOOLEAN]]
        /\ Lines'
    BY <1>1, <1>7, RevisionSteps
  <2>2. TypeOKVersions' /\ Stored' /\ (Table(runs))'
    <3>1. Table(runs')
      BY <1>1, <2>1
    <3> QED
      BY <1>1, <2>1, <3>1, RunsAlone
  <2> QED
    BY <2>1, <2>2 DEF Inv, TypeOK
<1>8. CASE UNCHANGED vars
  <2>1. UNCHANGED taskVars /\ UNCHANGED articleVars /\ runs' = runs
    BY <1>8 DEF vars, articleVars
  <2>2. Table(runs')
    BY <1>1, <2>1
  <2> QED
    BY <1>2, <2>1, <2>2
<1> QED
  BY <1>3, <1>4, <1>5, <1>6, <1>7, <1>8 DEF Next

LEMMA Invariant == Spec => []Inv
BY Initially, Inductive, PTL DEF Spec

-----------------------------------------------------------------------------
(* Theorems *)

\* Every step of an edit, an analysis, a run or a Revision leaves the task, its
\* versions, its runs and its Revisions well formed.
THEOREM TypeCorrect == Spec => []TypeOK
<1>1. Inv => TypeOK
  BY DEF Inv
<1> QED
  BY <1>1, Invariant, PTL

\* A 主题 report was written about the very 来源 of every version that shows it,
\* whichever versions share its snapshot and whichever of them is restored.
\* theme/worker.py:91-118, theme/revisions.py:74-107
THEOREM ThemeAnswers == Spec => []ThemeAnswersItsSources
<1>1. Inv => ThemeAnswersItsSources
  <2> SUFFICES ASSUME Inv, NEW v \in DOMAIN versions, versions[v].theme # 0
               PROVE  themes[versions[v].theme].report \in {NoReport, ContextOf(v)}
    BY DEF ThemeAnswersItsSources
  <2>1. PICK t : t = versions[v].theme
    OBVIOUS
  <2>2. t \in 1 .. MaxVersions
    BY <2>1, TaskFacts, ConstantsAssumption DEF Inv, TypeOK
  <2>3. themes[t].report \in {NoReport, themes[t].context} /\ themes[t].context = ContextOf(v)
    BY <2>1, <2>2 DEF Inv, Stored
  <2> QED
    BY <2>1, <2>3
<1> QED
  BY <1>1, Invariant, PTL

\* While a worker writes an article whose run nothing ended during the claim, its
\* version stays the current one and keeps every report it was promised: what the
\* handler read without a lock still held when it committed `running`, because a
\* run that was queued all the while has kept every save and restore away.
\* liyan/worker.py:118-147, source_editing.py:117-153
THEOREM GenerationKept == Spec => []GenerationKeepsItsVersion
<1>1. Inv => GenerationKeepsItsVersion
  <2> SUFFICES ASSUME Inv, NEW r \in DOMAIN runs, runs[r].kind = "article",
                      ~ runs[r].overtaken,
                      \/ runs[r].status = "running"
                      \/ runs[r].status = "cancel_requested" /\ ~ deleted
               PROVE  runs[r].target = current /\ Complete(current) /\ ~ deleted
    BY DEF GenerationKeepsItsVersion
  <2>1. RunOK(r, runs[r])
    BY RowIs DEF Inv
  <2>2. runs[r].target = current /\ ~ deleted /\ Complete(runs[r].target)
    BY <2>1 DEF RunOK
  <2> QED
    BY <2>2
<1> QED
  BY <1>1, Invariant, PTL

\* The Revisions of an article are one line, whatever saves race for it.
\* liyan/api.py:642-739, database.py:509-546
THEOREM RevisionsInLine == Spec => []RevisionsLinear
<1>1. Inv => RevisionsLinear
  BY DEF Inv, Lines
<1> QED
  BY <1>1, Invariant, PTL

-----------------------------------------------------------------------------
(* What was saved stands. *)

\* A step writes over nothing that an earlier one saved.
Stands ==
    /\ \A v \in DOMAIN versions : /\ v \in DOMAIN versions' /\ versions'[v] = versions[v]
                                  /\ ContextOf(v)' = ContextOf(v)
    /\ \A t \in DOMAIN themes : themes[t].report # NoReport => themes'[t] = themes[t]
    /\ \A v \in DOMAIN revisions : revisions[v] \subseteq revisions'[v]

LEMMA StandsStill ==
    ASSUME Inv, versions' = versions, revisions' = revisions,
           \A id \in SourceIds : sources'[id].content = sources[id].content,
           \A t \in DOMAIN themes : themes[t].report # NoReport => themes'[t] = themes[t]
    PROVE  Stands
<1>1. TypeOKVersions
  BY DEF Inv, TypeOK
<1>2. ASSUME NEW v \in DOMAIN versions PROVE ContextOf(v)' = ContextOf(v)
  <2>1. \A i \in DOMAIN versions[v].sources : versions[v].sources[i] \in SourceIds
    BY <1>1, SourcesOf
  <2> QED
    BY <1>1, <2>1, ContextKept
<1> QED
  BY <1>2 DEF Stands

LEMMA SaveStands ==
    ASSUME Inv, NEW e \in Edits, SaveCommits(e), revisions' = revisions
    PROVE  Stands
<1>1. TypeOKVersions /\ Stored
  BY DEF Inv, TypeOK
<1>2. PICK base, n, m, changed, ids, texts, theme, row :
          Saves(base, n, m, changed, ids, texts, theme, row)
  BY <1>1, SaveIs
<1>3. Saved(n, m, ids, texts, theme, row)
  BY <1>1, <1>2, SaveWrites
<1>4. /\ n = Len(versions) + 1 /\ themes[n] = NoTheme
      /\ DOMAIN versions' = 1 .. n
      /\ \A v \in DOMAIN versions : v < n /\ versions'[v] = versions[v]
      /\ \A id \in SourceIds : id[1] # n => sources'[id] = sources[id]
      /\ \A t \in 1 .. MaxVersions : t # n => themes'[t] = themes[t]
  BY <1>3 DEF Saved
<1>5. /\ DOMAIN versions = 1 .. Len(versions) /\ Len(versions) \in Nat
      /\ DOMAIN themes = 1 .. MaxVersions
  BY <1>1, TaskFacts DEF TypeOKVersions
<1>6. ASSUME NEW v \in DOMAIN versions PROVE ContextOf(v)' = ContextOf(v)
  <2>1. ASSUME NEW i \in DOMAIN versions[v].sources
        PROVE  sources'[versions[v].sources[i]] = sources[versions[v].sources[i]]
    <3>1. PICK id : id = versions[v].sources[i]
      OBVIOUS
    <3>2. id \in SourceIds /\ id[1] <= Len(versions)
      BY <1>1, <3>1, SourcesOf DEF Stored
    <3>3. id[1] # n
      BY <1>4, <1>5, <3>2
    <3> QED
      BY <1>4, <3>1, <3>2, <3>3
  <2> QED
    BY <1>1, <1>4, <2>1, ContextKept
<1>7. \A t \in DOMAIN themes : themes[t].report # NoReport => themes'[t] = themes[t]
  BY <1>4, <1>5 DEF NoTheme, NoReport
<1>8. \A v \in DOMAIN versions : v \in DOMAIN versions' /\ versions'[v] = versions[v]
  BY <1>4, <1>5
<1> QED
  BY <1>6, <1>7, <1>8 DEF Stands

LEMMA SucceedThemeStands ==
    ASSUME Inv, NEW r \in DOMAIN runs, SucceedTheme(r), revisions' = revisions
    PROVE  Stands
<1>1. \A t \in DOMAIN themes : themes[t].report # NoReport => themes'[t] = themes[t]
  <2>1. CASE ThemeVerdict(runs[r]) = "succeeded"
    <3>1. themes[runs[r].target].report = NoReport
      BY <2>1 DEF ThemeVerdict
    <3>2. themes' = [themes EXCEPT ![runs[r].target].report = runs[r].read]
      BY <2>1 DEF SucceedTheme
    <3> QED
      BY <3>1, <3>2
  <2>2. CASE ThemeVerdict(runs[r]) # "succeeded"
    BY <2>2 DEF SucceedTheme
  <2> QED
    BY <2>1, <2>2
<1>2. versions' = versions /\ sources' = sources
  BY DEF SucceedTheme
<1> QED
  BY <1>1, <1>2, StandsStill

LEMMA EveryStepStands == Inv /\ Inv' /\ [Next]_vars => Stands
<1> SUFFICES ASSUME Inv, Inv', [Next]_vars PROVE Stands
  OBVIOUS
<1>1. ASSUME UNCHANGED <<sources, themes, versions, revisions>> PROVE Stands
  BY <1>1, StandsStill
<1>2. CASE EditStep /\ UNCHANGED articleVars
  <2>1. CASE \E e \in Edits : SaveCommits(e)
    BY <1>2, <2>1, SaveStands DEF articleVars
  <2>2. CASE ~ \E e \in Edits : SaveCommits(e)
    BY <1>1, <1>2, <2>2 DEF EditStep, articleVars, CreateEdit, Discard, Restore
  <2> QED
    BY <2>1, <2>2
<1>3. CASE AnalysisStep /\ UNCHANGED articleVars
  <2>1. \A id \in SourceIds : sources'[id].content = sources[id].content
    <3>1. sources \in [SourceIds -> [content : Contents \cup {None},
                                    state : {"absent", "none", "active", "ended", "reported"}]]
      BY DEF Inv, TypeOK, TypeOKVersions
    <3>2. CASE \E id \in SourceIds : QueueSource(id) \/ SourceRunEnds(id) \/ RetrySource(id)
      <4>1. PICK id, state : sources' = [sources EXCEPT ![id].state = state]
        BY <3>2 DEF QueueSource, SourceRunEnds, RetrySource
      <4> QED
        BY <3>1, <4>1
    <3>3. CASE RetryTheme \/ \E t \in DOMAIN versions : QueueTheme(t)
      BY <3>3 DEF RetryTheme, QueueTheme, taskVars
    <3> QED
      BY <1>3, <3>2, <3>3 DEF AnalysisStep
  <2>2. UNCHANGED <<versions, themes>>
    BY <1>3 DEF AnalysisStep, QueueSource, SourceRunEnds, RetrySource, RetryTheme, QueueTheme, taskVars
  <2> QED
    BY <1>3, <2>1, <2>2, StandsStill DEF articleVars
<1>4. CASE RunStep /\ UNCHANGED articleVars
  <2>1. CASE \E r \in DOMAIN runs : SucceedTheme(r)
    BY <1>4, <2>1, SucceedThemeStands DEF articleVars
  <2>2. CASE ~ \E r \in DOMAIN runs : SucceedTheme(r)
    BY <1>1, <1>4, <2>2 DEF RunStep, articleVars, taskVars, Delete, Sweep, Cancel, FailReads,
       FailCommits, ClaimReads, ClaimTheme, ClaimCommits
  <2> QED
    BY <2>1, <2>2
<1>5. CASE ArticleStep
  BY <1>1, <1>5 DEF ArticleStep, articleVars, taskVars, Generate, ClaimArticle, SucceedArticle
<1>6. CASE RevisionStep
  <2>1. UNCHANGED <<taskVars, runs>>
    BY <1>6, RevisionSteps DEF Inv
  <2>2. \A v \in DOMAIN revisions : revisions[v] \subseteq revisions'[v]
    <3>1. CASE revisions' = revisions
      BY <3>1
    <3>2. CASE \E w \in Writers : CommitRevision(w)
      BY <3>2 DEF CommitRevision
    <3> QED
      BY <1>6, <3>1, <3>2 DEF RevisionStep, SaveRevision, RestoreRevision, Reads
  <2>3. ASSUME NEW v \in DOMAIN versions PROVE ContextOf(v)' = ContextOf(v)
    BY <2>1 DEF taskVars, ContextOf, TextsOf
  <2> QED
    BY <2>1, <2>2, <2>3 DEF Stands, taskVars
<1>7. CASE UNCHANGED vars
  BY <1>1, <1>7 DEF vars, articleVars, taskVars
<1> QED
  BY <1>2, <1>3, <1>4, <1>5, <1>6, <1>7 DEF Next

\* What database.py calls immutable is: a version and its texts are what they were
\* when it was saved (source_editing.py:1), a 主题 report that was accepted is never
\* written over, whichever run of it answers late (database.py:382), and no Revision
\* that was saved goes or changes (database.py:510).
THEOREM HistoryStands == Spec => [][Stands]_vars
<1>1. Inv /\ Inv' /\ [Next]_vars => [Stands]_vars
  BY EveryStepStands
<1> QED
  BY <1>1, Invariant, PTL DEF Spec

=============================================================================
