----------------------------- MODULE MCSettings -----------------------------
(* Instances of Settings for TLC. *)
EXTENDS Settings

CONSTANTS a1, a2, key, host, v1, v2

\* The environment sets the Stripe key and nothing else.
SmallEnv == [k \in Keys |-> IF k = StripeKey THEN v1 ELSE Empty]
=============================================================================
