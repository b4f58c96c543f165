----------------------------- MODULE MCAccounts -----------------------------
(* Instances of Accounts for TLC. *)
EXTENDS Accounts, TLC

CONSTANTS q1, q2, e1, e2, t1

\* Either nobody is registered, or all are and one uses a second factor.
SmallStarts == {[registered |-> {}, enrolling |-> {}],
                [registered |-> Emails, enrolling |-> {e1}]}

\* Requests are interchangeable.
Interchangeable == Permutations(Requests)
=============================================================================
