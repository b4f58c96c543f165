---------------------------- MODULE MCFulfilment ----------------------------
(* Instances of Fulfilment for TLC.                                        *)
EXTENDS Fulfilment, TLC

CONSTANTS o1, i1, i2, s1, s2, e1, e2, a1, a2

\* One order, all items and sessions are its.
OneOrder == [x \in Items |-> o1]
PaysForIt == [s \in Sessions |-> o1]
\* Each event reports its own session: the customer has paid twice.
TwoSessions == [e \in Events |-> IF e = e1 THEN s1 ELSE s2]
\* All events report one session.
OneSession == [e \in Events |-> s1]
=============================================================================
