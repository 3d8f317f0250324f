--------------------------- MODULE ReportAdmission ---------------------------
(***************************************************************************)
(* What 知言 promises a task, whatever its queue, its workers and its sweep *)
(* do: each Revision gets at most one report, from a run of its own that    *)
(* had been started; its runs are numbered without a gap; and once the task *)
(* is deleted it gains no report and no run beyond the first of a Revision. *)
(* ZhiyanRuns implements this (ImplementsAdmission there).                  *)
(***************************************************************************)
EXTENDS Naturals

CONSTANTS
    Revisions,      \* the source Revisions of the task
    Attempts,       \* attempt numbers
    NoRun           \* the Revision has no report

VARIABLES
    started,        \* the runs that have been queued so far
    reports,        \* the run behind each Revision's report, or NoRun
    deleted         \* the task has been deleted

vars == <<started, reports, deleted>>

Init ==
    /\ started = {}
    /\ reports = [r \in Revisions |-> NoRun]
    /\ deleted = FALSE

Start(r, n) ==
    /\ <<r, n>> \notin started
    /\ n > 1 => <<r, n - 1>> \in started
    /\ deleted => n = 1
    /\ started' = started \cup {<<r, n>>}
    /\ UNCHANGED <<reports, deleted>>

Admit(r, n) ==
    /\ <<r, n>> \in started
    /\ reports[r] = NoRun
    /\ ~deleted
    /\ reports' = [reports EXCEPT ![r] = <<r, n>>]
    /\ UNCHANGED <<started, deleted>>

Delete ==
    /\ ~deleted
    /\ deleted' = TRUE
    /\ UNCHANGED <<started, reports>>

Next ==
    \/ \E r \in Revisions, n \in Attempts : Start(r, n) \/ Admit(r, n)
    \/ Delete

Spec == Init /\ [][Next]_vars
=============================================================================
