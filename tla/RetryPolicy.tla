----------------------------- MODULE RetryPolicy -----------------------------
(***************************************************************************)
(* When a user may run a 知言, 主题知言 or 立言 target again: the policy of       *)
(* zhiyan/recovery.py, which liyan/recovery.py and theme/orchestration.py        *)
(* share.  ZhiyanRuns and TaskVersions leave this clock out: there a run that     *)
(* has ended may be retried at once, or never.                                 *)
(*                                                                          *)
(* Times are numbers, in seconds.  `manual` is when each manual run of the       *)
(* target was created, in that order, whatever became of it; `earliest` is the   *)
(* retry_allowed_at of its latest run, or Never when it has none.               *)
(***************************************************************************)
EXTENDS Integers, Sequences, FiniteSets

MANUAL_RETRY_LIMIT == 2
MANUAL_RETRY_WINDOW == 1800

Never == 0
Histories == Seq(Nat)

\* What one failure makes its next run wait: a rate limit, a rejected report, another
\* recoverable failure, or one that another run would not survive.
Backoff(failure) ==
    CASE failure = "provider_rate_limited" -> 60
      [] failure = "rejected_report" -> 15
      [] failure = "recoverable" -> 30
      [] OTHER -> 0

\* retry_allowed_at
RetryAllowedAt(finished, failure) == finished + Backoff(failure)

InsideWindow(manual, now) == {i \in DOMAIN manual : manual[i] + MANUAL_RETRY_WINDOW > now}

Remaining(manual, now) ==
    LET used == Cardinality(InsideWindow(manual, now))
    IN  IF used < MANUAL_RETRY_LIMIT THEN MANUAL_RETRY_LIMIT - used ELSE 0

\* When the oldest run inside the window leaves it.
WindowRelease(manual, now) ==
    LET times == {manual[i] : i \in InsideWindow(manual, now)}
        oldest == CHOOSE t \in times : \A other \in times : t <= other
    IN  oldest + MANUAL_RETRY_WINDOW

\* retry_state: the later of the failure's own moment and the window's, unless it
\* has passed.
AllowedAt(manual, earliest, now) ==
    LET release == WindowRelease(manual, now)
        at == IF Remaining(manual, now) = 0 /\ release > earliest THEN release ELSE earliest
    IN  IF at <= now THEN Never ELSE at

Allowed(manual, earliest, now) ==
    Remaining(manual, now) > 0 /\ AllowedAt(manual, earliest, now) = Never

-----------------------------------------------------------------------------
(* What the policy promises. *)

\* Times in the order of the runs.
InOrder(manual) == \A i, j \in DOMAIN manual : i <= j => manual[i] <= manual[j]

\* Of any three manual runs in a row the last is created half an hour after the
\* first, at the earliest.
AtMostTwoAWindow(manual) ==
    \A i \in DOMAIN manual :
        i + MANUAL_RETRY_LIMIT \in DOMAIN manual =>
            manual[i] + MANUAL_RETRY_WINDOW <= manual[i + MANUAL_RETRY_LIMIT]

=============================================================================
