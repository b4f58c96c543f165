----------------------------- MODULE MCRenewals -----------------------------
(* Instances of Renewals for TLC. *)
EXTENDS Renewals, TLC

CONSTANTS s1, s2, r1

\* Two services that expire at different times of the day.
TwoExpiries == [s \in Services |-> IF s = s1 THEN 16 ELSE 15]
=============================================================================
