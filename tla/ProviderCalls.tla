---------------------------- MODULE ProviderCalls ----------------------------
(***************************************************************************)
(* What one run says to its provider, and what it owes for it.  A report      *)
(* (知言 or 主题知言) may take several calls: a provider that stops in the      *)
(* middle of its searching is asked again, the last time without tools.  A     *)
(* press of 提炼主题 is the same adapter without search.  A 立言 article is one *)
(* call, and one more to repair an article that was refused.                   *)
(*                                                                          *)
(* A call is what its answer is: the provider invoices a call it answered,     *)
(* usable or not, and says what it used or forgets to.  The calls of one run   *)
(* may last longer than the stalled sweep waits, and then the sweep ends the    *)
(* run while its handler, the only one here, is still calling.                 *)
(***************************************************************************)
EXTENDS Naturals, FiniteSets

CONSTANTS
    Pages,              \* pages of the web
    Query, Reasoning,   \* what else an answer holds beside opened pages and text
    MaxContinuations,   \* MAX_SEARCH_CONTINUATIONS
    None                \* no result yet

ASSUME CallsAssumption ==
    /\ MaxContinuations \in Nat \ {0}
    /\ Query \notin Pages /\ Reasoning \notin Pages \cup {Query}
    /\ \A calls \in SUBSET (0 .. MaxContinuations) : calls # None

VARIABLES
    operation,  \* what the run is for
    pc,         \* the run waits for an answer, or has ended
    round,      \* calls answered so far
    tools,      \* the call in flight may search
    carried,    \* what the call in flight is told the run has done
    tally,      \* _RunTally: the answered calls whose usage it holds
    actions,    \* _RunTally: what the calls did
    result,     \* usage of the result the worker holds, or None
    cites,      \* the evidence of the report
    swept,      \* the sweep has ended the run under its handler
    code,       \* what the calls came to
    bill,       \* the calls whose usage record_execution_cost is given
    trail,      \* ghost: what the provider did in all of the run's calls
    invoiced    \* ghost: the calls that reported a usage

callVars == <<operation, pc, round, tools, carried, tally, actions, result, cites, swept,
              code, bill, trail, invoiced>>

Operations == {"report", "proposal", "article"}
Actions == Pages \cup {Query}
Items == Actions \cup {Reasoning}
Calls == 0 .. MaxContinuations
Codes == {"none", "succeeded", "provider_unavailable", "unusable", "no_text",
          "did_not_search", "rejected", "unopened_evidence"}

TypeOKCalls ==
    /\ operation \in Operations
    /\ pc \in {"calling", "repairing", "done"}
    /\ round \in 0 .. MaxContinuations + 1
    /\ tools \in BOOLEAN
    /\ carried \subseteq Items /\ actions \subseteq Actions /\ trail \subseteq Items
    /\ tally \subseteq Calls /\ bill \subseteq Calls /\ invoiced \subseteq Calls
    /\ result \in (SUBSET Calls) \cup {None}
    /\ cites \subseteq Pages
    /\ swept \in BOOLEAN
    /\ code \in Codes
    /\ pc = "done" <=> code # "none"

WebSearchEnabled == operation = "report"

InitCalls ==
    /\ operation \in Operations
    /\ pc = "calling" /\ round = 0
    /\ tools = WebSearchEnabled
    /\ carried = {} /\ tally = {} /\ actions = {}
    /\ result = None /\ cites = {}
    /\ swept = FALSE /\ code = "none" /\ bill = {}
    /\ trail = {} /\ invoiced = {}

-----------------------------------------------------------------------------
(* The tally and the bill. *)

InCall == pc \in {"calling", "repairing"}

\* The usage of the call that has just been answered, when the provider says it.
Usage(said) == IF said THEN {round} ELSE {}

\* What an unusable answer leaves the bill with: the tally and the call that failed.
\* mutant of WithTally: the failure knows only its own call.
WithOwn(usage) == usage
WithTally(usage) == tally \cup usage

\* record_execution_cost gets the result's usage, or the failure's where there is none.
Owed(usage) == IF result # None THEN result ELSE usage

\* _finish_failed leaves a run alone that somebody else has ended, and then nothing is
\* recorded; _finish_succeeded records what a late answer cost.
Recorded(how, usage) == IF swept /\ how # "succeeded" THEN {} ELSE usage

Ended(how, usage) ==
    /\ pc' = "done"
    /\ code' = how
    /\ bill' = Recorded(how, Owed(usage))

Answered(did, said) ==
    /\ round' = round + 1
    /\ trail' = trail \cup did
    /\ invoiced' = invoiced \cup Usage(said)

\* _RunTally.add
\* mutant of Added: only the last call's actions are kept.
AddedLast(did) == did \cap Actions
Added(did) == actions \cup (did \cap Actions)

\* Only a call that has its tools searches.
Possible(did) == did \cap Actions # {} => tools

-----------------------------------------------------------------------------
(* What a call may come to. *)

\* The socket broke, the status was not 200, or the answer was no object.
CallFails ==
    /\ InCall
    /\ Answered({}, FALSE)
    /\ Ended("provider_unavailable", tally)
    /\ UNCHANGED <<operation, tools, carried, tally, actions, result, cites, swept>>

\* The answer is truncated, has no output, or is a refusal.
Unusable(did, said) ==
    /\ InCall
    /\ Possible(did)
    /\ Answered(did, said)
    /\ Ended("unusable", WithTally(Usage(said)))
    /\ UNCHANGED <<operation, tools, carried, tally, actions, result, cites, swept>>

\* Output items without a message: asked again only if the run could search.
Continuable(items) == items # {} /\ WebSearchEnabled

\* mutant of Final: one more call.
FinalPassed == round > MaxContinuations
Final == round = MaxContinuations

\* What the next call is told: the items of the call that stopped.
Carries(items) == items

StopsSearching(did, said) ==
    /\ pc = "calling" /\ operation # "article"
    /\ Possible(did)
    /\ Answered(did, said)
    /\ tally' = tally \cup Usage(said)
    /\ actions' = Added(did)
    /\ \/ /\ ~Final /\ Continuable(did)
          /\ carried' = Carries(did)
          /\ tools' = (round + 1 # MaxContinuations)
          /\ UNCHANGED <<pc, code, bill>>
       \/ /\ Final \/ ~Continuable(did)
          /\ Ended("no_text", tally')
          /\ UNCHANGED <<carried, tools>>
    /\ UNCHANGED <<operation, result, cites, swept>>

\* A report that rests on a page its run never opened is refused.
Refusal(evidence, opened) ==
    IF evidence \subseteq opened THEN "succeeded" ELSE "unopened_evidence"

\* The call wrote its text: judged by accept_report_text, or by accept_candidates_text.
WritesReport(did, said, evidence) ==
    /\ pc = "calling" /\ operation # "article"
    /\ Possible(did)
    /\ WebSearchEnabled \/ evidence = {}
    /\ Answered(did, said)
    /\ tally' = tally \cup Usage(said)
    /\ actions' = Added(did)
    /\ IF WebSearchEnabled /\ actions' = {}
       THEN Ended("did_not_search", tally') /\ UNCHANGED <<result, cites>>
       ELSE /\ result' = tally'
            /\ cites' = evidence
            /\ pc' = "done"
            /\ code' \in {Refusal(evidence, actions'), "rejected"}
            /\ bill' = Recorded(code', tally')
    /\ UNCHANGED <<operation, tools, carried, swept>>

\* The usage of the article the worker holds, with that of the one it repairs.
Combined(usage) == (IF result = None THEN {} ELSE result) \cup usage

\* An article is accepted, is beyond repair, or is repaired once.
WritesArticle(said) ==
    /\ operation = "article"
    /\ InCall
    /\ Answered({}, said)
    /\ result' = Combined(Usage(said))
    /\ \/ /\ pc' = "done"
          /\ code' \in {"succeeded", "rejected"}
          /\ bill' = Recorded(code', result')
       \/ /\ pc = "calling" /\ pc' = "repairing"
          /\ UNCHANGED <<code, bill>>
    /\ UNCHANGED <<operation, tools, carried, tally, actions, cites, swept>>

\* recover_stalled_executions: the run has been calling for too long.
SweepsCall ==
    /\ InCall /\ ~swept
    /\ swept' = TRUE
    /\ UNCHANGED <<operation, pc, round, tools, carried, tally, actions, result, cites, code,
                   bill, trail, invoiced>>

NextCalls ==
    \/ SweepsCall
    \/ CallFails
    \/ \E said \in BOOLEAN :
          \/ WritesArticle(said)
          \/ \E did \in SUBSET Items :
                \/ Unusable(did, said)
                \/ StopsSearching(did, said)
                \/ \E evidence \in SUBSET Pages : WritesReport(did, said, evidence)

SpecCalls == InitCalls /\ [][NextCalls]_callVars

-----------------------------------------------------------------------------
(* Properties *)

Done == pc = "done"

\* Whatever the calls of a report or a press came to, its bill holds every call that
\* reported a usage: a failure of the third call does not forget what the first two cost,
\* and an answer that comes after the sweep is billed too.  Not a failure that comes after
\* the sweep, which records nothing of any of its calls.
\* zhiyan/worker.py:139-183 and 241-250, theme/proposal_worker.py:199-222
EveryCallBilled ==
    /\ Done /\ operation # "article"
    /\ code = "succeeded" \/ ~swept
    => bill = invoiced

\* A report is refused for a page it did not open exactly when no call of its run opened
\* it: what an earlier call read is still evidence in the one that writes.
EvidenceIsOfTheRun ==
    /\ code = "unopened_evidence" => ~(cites \subseteq trail)
    /\ code = "succeeded" => cites \subseteq trail

=============================================================================
