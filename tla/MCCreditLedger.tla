----------------------------- MODULE MCCreditLedger -----------------------------
(* Instances of CreditLedger small enough for TLC. *)
EXTENDS CreditLedger

\* The share of the pack that was refunded, rounded down.
RoundedDown == [n \in 0 .. Price |-> IF n = 0 THEN 0 ELSE (Pack * n) \div Price]
=============================================================================
