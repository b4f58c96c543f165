------------------------------- MODULE MCCart -------------------------------
(* The instance of Cart for TLC: MCCart.cfg.                               *)
EXTENDS Cart, TLC
=============================================================================
