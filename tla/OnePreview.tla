----------------------------- MODULE OnePreview -----------------------------
(***************************************************************************)
(* What a 发布任务 promises about one Revision and one 发布目标: it is       *)
(* submitted at most once, what it says of its outcome is true, only a       *)
(* failure that created nothing may be sent again, and everything else it    *)
(* ends in is final.  Publication implements this (ImplementsOnePreview      *)
(* there).                                                                   *)
(***************************************************************************)
EXTENDS Naturals

CONSTANT Revisions

VARIABLES
    outcome,        \* status of each Revision's 发布任务, or absent
    previews        \* how many Previews Blog holds of each Revision

vars == <<outcome, previews>>

Init ==
    /\ outcome = [r \in Revisions |-> "absent"]
    /\ previews = [r \in Revisions |-> 0]

\* Confirmed for the first time, or retried after a definitive failure.
Submit(r) ==
    /\ outcome[r] \in {"absent", "failed"}
    /\ outcome' = [outcome EXCEPT ![r] = "pending"]
    /\ UNCHANGED previews

Create(r) ==
    /\ outcome[r] = "pending"
    /\ previews[r] = 0
    /\ previews' = [previews EXCEPT ![r] = 1]
    /\ UNCHANGED outcome

\* What each outcome may claim of the number of Previews.
Claims == [succeeded |-> {1}, failed |-> {0}, outcome_unknown |-> {0, 1}]

Settle(r, s) ==
    /\ outcome[r] = "pending"
    /\ previews[r] \in Claims[s]
    /\ outcome' = [outcome EXCEPT ![r] = s]
    /\ UNCHANGED previews

Next ==
    \E r \in Revisions :
        \/ Submit(r) \/ Create(r)
        \/ \E s \in DOMAIN Claims : Settle(r, s)

Spec == Init /\ [][Next]_vars
=============================================================================
